---- MODULE Spec2Model ----
(***************************************************************************)
(* Mood-Tracker-Pro: the HomeScreen summary (streak, day and week          *)
(* averages, historical navigation) and the AdvancedMoodAnalyticsScreen    *)
(* pattern analysis, as state machines.                                    *)
(*                                                                         *)
(* Dates 'YYYY-MM-DD' are day numbers (an integer; ISO strings of one era  *)
(* order lexically as their day numbers do).  Instants are hours since     *)
(* 00:00 UTC of day 0.  Averages are exact fractions <<sum, count>>; the   *)
(* ratings and counts here are far too small for IEEE rounding to merge or *)
(* reorder two different fractions.  Where a test sits on a fraction that  *)
(* rounding can cross (the 0.5 of the weekend pattern, a tenth halfway in  *)
(* toFixed) the rounding error of the double division is computed.         *)
(* JavaScript null is the empty tuple and a nullable number n is the tuple *)
(* <<n>>, so that null is no number.  A note is the sequence of its        *)
(* characters.                                                             *)
(***************************************************************************)
EXTENDS Integers, Sequences, FiniteSets, TLC

\* ------------------------------------------------------------------ bounds
MaxDay == 8
MaxEntries == 2
MaxOffset == 2
MaxSaves == 1

\* ------------------------------------------------------- program constants
LookbackDays == 365
WeekBackCurrent == 7
WeekBackHistorical == 6

Ratings == 1..5
NoData == << >>
Just(n) == << n >>

Dates == 0..MaxDay

\* --------------------------------------------------- the device's time zone
\* A zone is its standard offset from UTC in hours and at most one clock
\* change inside the modelled days: "fall" (clocks go back an hour at instant
\* `at`: the offset is std+1 before it, std from it on) or "spring" (std
\* before, std+1 from it on).
TransitionDay == 3

Zones ==
  { [std |-> 0,  kind |-> "none",   at |-> 0],
    [std |-> -5, kind |-> "none",   at |-> 0],
    [std |-> -5, kind |-> "fall",   at |-> 24 * TransitionDay + 6],
    [std |-> 1,  kind |-> "spring", at |-> 24 * TransitionDay + 1] }

\* The hours of the day new Date() is taken at.
NowHours == {0, 23}

OffsetBefore(z) == IF z.kind = "fall" THEN z.std + 1 ELSE z.std
OffsetAfter(z) == IF z.kind = "spring" THEN z.std + 1 ELSE z.std

\* LocalTime(t): the wall clock of instant t.
LocalTime(z, t) ==
  IF z.kind = "none" THEN t + z.std
  ELSE IF t < z.at THEN t + OffsetBefore(z) ELSE t + OffsetAfter(z)

\* UTC(local): the instant of a wall-clock time; a repeated or skipped wall
\* clock time is read with the offset in force before the change.
UTC(z, local) ==
  IF z.kind = "none" THEN local - z.std
  ELSE IF local - OffsetBefore(z) < z.at THEN local - OffsetBefore(z)
  ELSE IF local - OffsetAfter(z) >= z.at THEN local - OffsetAfter(z)
  ELSE local - OffsetBefore(z)

\* new Date('YYYY-MM-DD'): a date-only string is midnight UTC.
ParseDate(d) == 24 * d

\* date.setDate(date.getDate() - n): the same wall-clock time n days earlier.
SetDateBack(z, t, n) == UTC(z, LocalTime(z, t) - 24 * n)

\* date.toISOString().split('T')[0]: the UTC calendar date.
ToISODate(t) == t \div 24

\* new Date(dateString).getDay(): the local weekday, 0 = Sunday; day 0 of the
\* model is a Sunday.
GetDay(z, t) == (LocalTime(z, t) \div 24) % 7

\* ------------------------------------------------------------- arithmetic
RECURSIVE SumRatings(_)
SumRatings(es) ==
  IF es = << >> THEN 0 ELSE es[1].rating + SumRatings(Tail(es))

\* sum / entries.length as an exact fraction.
Mean(es) == << SumRatings(es), Len(es) >>

FracEq(a, b) == a[1] * b[2] = b[1] * a[2]
FracLess(a, b) == a[1] * b[2] < b[1] * a[2]

\* A rounding that sends .5 down, to compare against.
MathRound_HalfDown(f) ==
  CHOOSE k \in 0..(f[1] + 1) :
    /\ (2 * k - 1) * f[2] < 2 * f[1]
    /\ 2 * f[1] <= (2 * k + 1) * f[2]

\* Math.round(x) of a positive fraction: the integer nearest to x, the upper
\* one when x lies halfway between two integers.
MathRound(f) ==
  CHOOSE k \in 0..(f[1] + 1) :
    /\ (2 * k - 1) * f[2] <= 2 * f[1]
    /\ 2 * f[1] < (2 * k + 1) * f[2]

\* --------------------------------------------------------------- state
VARIABLES
  tz,                  \* the device's time zone (environment)
  now,                 \* the instant new Date() returns (environment)
  db,                  \* the user's rows of table mood_entries, date descending
  subscription,        \* the user's subscription tier (environment)
  refresh,             \* the refreshMoodData runs in flight, by run id
  streak,              \* useState(0)
  weeklyAverage,       \* useState(null)
  weeklyMoodEntries,   \* useState([])
  todayMood,           \* useState(null)
  selectedMood,        \* useState(null)
  summaryTimePeriod,   \* useState('day')
  dateOffset,          \* useState(0)
  historicalMoodData,  \* useState({ dayMood: null, weekAverage: null, entries: [] })
  isLoadingHistorical, \* useState(false)
  loads,               \* the loadHistoricalMoodData calls in flight, by call id
  isPremium,           \* useState(false)
  activities,          \* useState(null)
  isLoadingActivities, \* useState(false)
  hasMoodInput,        \* useState(false)
  lastMoodDetails,     \* useState('')
  submissions,         \* the handleMoodDetailsSubmitted calls in flight, by call id
  view,                \* the state values the last render closed over
  freeUserMoodUpdated, \* AsyncStorage holds 'free_user_mood_updated' = 'true'
  updates,             \* the refreshRecommendations calls, by call id
  serviceCalls,        \* requests those calls have sent to getActivityRecommendations
  screen,              \* the route the navigator shows
  isLoading,           \* analytics screen: useState(true)
  moodEntries,         \* analytics screen: useState([])
  hasEnoughData,       \* analytics screen: useState(false)
  moodPatterns,        \* analytics screen: useState([])
  moodTriggers,        \* analytics screen: useState([])
  loadMoodData         \* analytics screen: where its loadMoodData call stands

envVars == << tz, now, db, subscription >>
refreshVars == << streak, weeklyAverage, weeklyMoodEntries >>
moodVars == << todayMood, selectedMood >>
navVars == << summaryTimePeriod, dateOffset >>
histVars == << historicalMoodData, isLoadingHistorical >>
recVars == << isPremium, activities, isLoadingActivities >>
detailVars == << hasMoodInput, lastMoodDetails, submissions >>
limitVars == << freeUserMoodUpdated, updates, serviceCalls, screen >>

homeVars ==
  << refresh, streak, weeklyAverage, weeklyMoodEntries, todayMood,
     selectedMood, summaryTimePeriod, dateOffset, historicalMoodData,
     isLoadingHistorical, loads, isPremium, activities, isLoadingActivities,
     hasMoodInput, lastMoodDetails, submissions, view,
     freeUserMoodUpdated, updates, serviceCalls, screen >>
analyticsVars ==
  << isLoading, moodEntries, hasEnoughData, moodPatterns, moodTriggers, loadMoodData >>

vars == << envVars, homeVars, analyticsVars >>

MaxRuns == 2
Runs == 1..MaxRuns
MaxLoads == 2
Loads == 1..MaxLoads
MaxSubmissions == 2
Submissions == 1..MaxSubmissions
IdleSubmission == [pc |-> "idle", outcome |-> "none"]
MaxUpdates == 2
Updates == 1..MaxUpdates
IdleUpdate == [pc |-> "idle", premium |-> FALSE]

\* No refreshRecommendations call has been made, the flag of the free tier
\* is not stored, and the navigator shows the home screen.
LimitMounted ==
  /\ freeUserMoodUpdated = FALSE
  /\ updates = [u \in Updates |-> IdleUpdate]
  /\ serviceCalls = 0
  /\ screen = "Home"

\* The rows a table can hold: sequences of entries ordered by date descending,
\* as .order('date', { ascending: false }) returns them.
Entries(dates, ratings) == [date : dates, rating : ratings]

SortedDesc(es) == \A i \in 1..(Len(es) - 1) : es[i].date >= es[i + 1].date

Tables(dates, ratings, n) ==
  { es \in UNION { [1..k -> Entries(dates, ratings)] : k \in 0..n } : SortedDesc(es) }

DateSet(es) == { es[i].date : i \in 1..Len(es) }

\* ------------------------------------------- refreshMoodData: the streak
\* A variant of the walk whose loop stops one step earlier (i < 365).
StreakWalk_Exclusive(z, dateMap, mostRecentDate, i) ==
  LET Leaves(j) == \/ j >= LookbackDays
                   \/ ToISODate(SetDateBack(z, mostRecentDate, j)) \notin dateMap
      last == CHOOSE j \in i..LookbackDays :
                Leaves(j) /\ \A k \in i..(j - 1) : ~Leaves(k)
  IN  last - i

\* for (let i = 1; i <= 365; i++) { ... if (dateMap.has(dateStr)) currentStreak++
\* else break }: the number of further days counted from step i on.  The loop
\* leaves at the first step whose date is not in dateMap (break) or at
\* i = 366 (the loop condition); every step before it has counted one day.
StreakWalk(z, dateMap, mostRecentDate, i) ==
  LET Leaves(j) == \/ j > LookbackDays
                   \/ ToISODate(SetDateBack(z, mostRecentDate, j)) \notin dateMap
      last == CHOOSE j \in i..(LookbackDays + 1) :
                Leaves(j) /\ \A k \in i..(j - 1) : ~Leaves(k)
  IN  last - i

ComputeStreak(z, allEntries) ==
  IF Len(allEntries) > 0
  THEN 1 + StreakWalk(z, DateSet(allEntries), ParseDate(allEntries[1].date), 1)
  ELSE 0

\* ------------------------------------- refreshMoodData: the weekly average
\* sevenDaysAgo.setDate(sevenDaysAgo.getDate() - 7); startDate and today are
\* UTC calendar dates; allEntries.filter(date >= startDate && date <= today).
WeekStartDate(z, t) == ToISODate(SetDateBack(z, t, WeekBackCurrent))

InRange(e, startDate, endDate) == e.date >= startDate /\ e.date <= endDate

\* .eq('date', targetDateStr)
DayQuery(table, targetDateStr) ==
  LET Keep(e) == e.date = targetDateStr IN SelectSeq(table, Keep)

\* .gte('date', startDate).lte('date', endDate)
RangeQuery(table, startDate, endDate) ==
  LET Keep(e) == InRange(e, startDate, endDate) IN SelectSeq(table, Keep)

CurrentWeekEntries(z, t, allEntries) ==
  LET Keep(e) == InRange(e, WeekStartDate(z, t), ToISODate(t))
  IN  SelectSeq(allEntries, Keep)

AverageOrNull(es) == IF Len(es) > 0 THEN Mean(es) ELSE NoData

\* ------------------------------------------------ refreshMoodData, by await
IdleRun ==
  [pc |-> "idle", caller |-> "none", premium |-> FALSE, today |-> "unknown",
   outcome |-> "none"]

\* A run ends.  handleMoodSaved awaits its run and then shows the activities
\* and resets the summary to the current day/week: setHasMoodInput(true);
\* setDateOffset(0).
Complete(r, outcome) ==
  /\ refresh' = [refresh EXCEPT ![r] = [IdleRun EXCEPT !.outcome = outcome]]
  /\ hasMoodInput' = IF refresh[r].caller = "saved" THEN TRUE ELSE hasMoodInput
  /\ dateOffset' = IF refresh[r].caller = "saved" THEN 0 ELSE dateOffset
  /\ UNCHANGED summaryTimePeriod

StartRefresh(r, caller) ==
  /\ refresh[r].pc = "idle"
  /\ \A k \in Runs : k < r => refresh[k].pc # "idle"
  /\ refresh' = [refresh EXCEPT ![r] = [IdleRun EXCEPT !.pc = "session", !.caller = caller]]

\* An awaited call rejects, or there is a session error or no session: the
\* run logs and returns.  (A failing recommendation request is caught inside
\* generateRecommendations... and does not end the run.)
RefreshStops(r) ==
  /\ refresh[r].pc \in {"session", "tier", "today", "removeItem", "detailed", "entries"}
  /\ Complete(r, "stopped")
  /\ UNCHANGED << envVars, refreshVars, moodVars, histVars, loads, recVars, view >>
  /\ UNCHANGED << lastMoodDetails, submissions, analyticsVars, limitVars >>

RefreshSession(r) ==
  /\ refresh[r].pc = "session"
  /\ refresh' = [refresh EXCEPT ![r].pc = "tier"]
  /\ UNCHANGED << envVars, refreshVars, moodVars, navVars, histVars, loads, recVars, view >>
  /\ UNCHANGED << detailVars, analyticsVars, limitVars >>

\* setIsPremium(tier === 'premium')
RefreshTier(r) ==
  /\ refresh[r].pc = "tier"
  /\ isPremium' = (subscription = "premium")
  /\ refresh' = [refresh EXCEPT ![r].pc = "today", ![r].premium = (subscription = "premium")]
  /\ UNCHANGED << envVars, refreshVars, moodVars, navVars, histVars, loads,
                  activities, isLoadingActivities, view >>
  /\ UNCHANGED << detailVars, analyticsVars, limitVars >>

\* getTodayMoodEntry(): the summary entry of today's rows, null without rows.
TodayMoodEntry(table, t) ==
  IF DayQuery(table, ToISODate(t)) = << >>
  THEN { NoData }
  ELSE { Just(DayQuery(table, ToISODate(t))[i].rating) :
           i \in 1..Len(DayQuery(table, ToISODate(t))) }

\* if (todayEntry) { setTodayMood(rating); setSelectedMood(rating);
\* setHasMoodInput(true); setLastMoodDetails(emotion_details or '') ... }
\* The rows of this model carry no emotion_details: the text stored is ''.
RefreshTodayFound(r, rating) ==
  /\ refresh[r].pc = "today"
  /\ Just(rating) \in TodayMoodEntry(db, now)
  /\ todayMood' = Just(rating)
  /\ selectedMood' = Just(rating)
  /\ refresh' = [refresh EXCEPT ![r].pc = "removeItem", ![r].today = "found"]
  /\ UNCHANGED << envVars, refreshVars, navVars, histVars, loads, recVars, view >>
  /\ hasMoodInput' = TRUE
  /\ lastMoodDetails' = ""
  /\ UNCHANGED << submissions, analyticsVars, limitVars >>

\* A variant that falls back to the mood it finds in the state.
RefreshTodayNone_KeepsMood(r) ==
  /\ refresh[r].pc = "today"
  /\ NoData \in TodayMoodEntry(db, now)
  /\ activities' = NoData
  /\ refresh' = [refresh EXCEPT ![r].pc = "removeItem", ![r].today = "none"]
  /\ UNCHANGED << envVars, refreshVars, moodVars, navVars, histVars, loads, isPremium,
                  isLoadingActivities, view >>
  /\ hasMoodInput' = FALSE
  /\ lastMoodDetails' = ""
  /\ UNCHANGED << submissions, analyticsVars, limitVars >>

\* else { setSelectedMood(null); setTodayMood(null); setHasMoodInput(false);
\* setActivities(null); setLastMoodDetails(''); ... }
RefreshTodayNone(r) ==
  /\ refresh[r].pc = "today"
  /\ NoData \in TodayMoodEntry(db, now)
  /\ todayMood' = NoData
  /\ selectedMood' = NoData
  /\ activities' = NoData
  /\ refresh' = [refresh EXCEPT ![r].pc = "removeItem", ![r].today = "none"]
  /\ UNCHANGED << envVars, refreshVars, navVars, histVars, loads, isPremium,
                  isLoadingActivities, view >>
  /\ hasMoodInput' = FALSE
  /\ lastMoodDetails' = ""
  /\ UNCHANGED << submissions, analyticsVars, limitVars >>

\* What follows today's entry: the detailed entries for a premium user, then
\* the query for all entries.
AfterToday(r) == IF refresh[r].premium THEN "detailed" ELSE "entries"

\* AsyncStorage.removeItem('last_mood_rating') is done.  With an entry found
\* the recommendations are requested: setIsLoadingActivities(true).
RefreshRemoveItem(r) ==
  /\ refresh[r].pc = "removeItem"
  /\ IF refresh[r].today = "found"
     THEN /\ isLoadingActivities' = TRUE
          /\ refresh' = [refresh EXCEPT ![r].pc = "recs"]
     ELSE /\ UNCHANGED isLoadingActivities
          /\ refresh' = [refresh EXCEPT ![r].pc = AfterToday(r)]
  /\ UNCHANGED << envVars, refreshVars, moodVars, navVars, histVars, loads,
                  isPremium, activities, view >>
  /\ UNCHANGED << detailVars, analyticsVars, limitVars >>

\* The lists getActivityRecommendations can answer with.
ActivityLists == { << >>, << "activity" >> }

\* setActivities(recommendedActivities); finally setIsLoadingActivities(false)
RefreshRecsOk(r, list) ==
  /\ refresh[r].pc = "recs"
  /\ activities' = Just(list)
  /\ isLoadingActivities' = FALSE
  /\ refresh' = [refresh EXCEPT ![r].pc = AfterToday(r)]
  /\ UNCHANGED << envVars, refreshVars, moodVars, navVars, histVars, loads,
                  isPremium, view >>
  /\ UNCHANGED << detailVars, analyticsVars, limitVars >>

\* catch: setActivities(null); finally setIsLoadingActivities(false)
RefreshRecsFail(r) ==
  /\ refresh[r].pc = "recs"
  /\ activities' = NoData
  /\ isLoadingActivities' = FALSE
  /\ refresh' = [refresh EXCEPT ![r].pc = AfterToday(r)]
  /\ UNCHANGED << envVars, refreshVars, moodVars, navVars, histVars, loads,
                  isPremium, view >>
  /\ UNCHANGED << detailVars, analyticsVars, limitVars >>

\* getTodayDetailedMoodEntries() is done; the query for all entries is sent.
RefreshDetailed(r) ==
  /\ refresh[r].pc = "detailed"
  /\ refresh' = [refresh EXCEPT ![r].pc = "entries"]
  /\ UNCHANGED << envVars, refreshVars, moodVars, navVars, histVars, loads, recVars, view >>
  /\ UNCHANGED << detailVars, analyticsVars, limitVars >>

\* The continuation of refreshMoodData after the query for all entries.
AllEntriesOk(r) ==
  /\ refresh[r].pc = "entries"
  /\ streak' = ComputeStreak(tz, db)
  /\ weeklyMoodEntries' = CurrentWeekEntries(tz, now, db)
  /\ weeklyAverage' = AverageOrNull(CurrentWeekEntries(tz, now, db))
  /\ Complete(r, "entries")
  /\ UNCHANGED << envVars, moodVars, histVars, loads, recVars, view >>
  /\ UNCHANGED << lastMoodDetails, submissions, analyticsVars, limitVars >>

\* if (entriesError) console.error(...): nothing is set.
AllEntriesError(r) ==
  /\ refresh[r].pc = "entries"
  /\ Complete(r, "entriesError")
  /\ UNCHANGED << envVars, refreshVars, moodVars, histVars, loads, recVars, view >>
  /\ UNCHANGED << lastMoodDetails, submissions, analyticsVars, limitVars >>

\* ------------------------------------------------ loadHistoricalMoodData
IdleLoad == [pc |-> "idle", dateOffset |-> 0, period |-> "day", targetDate |-> 0]

InitialHistorical == [dayMood |-> NoData, weekAverage |-> NoData, entries |-> << >>]

\* getCurrentDate(), with the dateOffset and summaryTimePeriod it closed over.
GetCurrentDate(z, t, period, offset) ==
  IF period = "day" THEN SetDateBack(z, t, offset) ELSE SetDateBack(z, t, offset * 7)

RECURSIVE Reverse(_)
Reverse(es) == IF es = << >> THEN << >> ELSE Append(Reverse(Tail(es)), es[1])

\* A variant that reports 0 for a day without entries.
DayAverage_ZeroWhenEmpty(dayEntries) ==
  IF Len(dayEntries) > 0 THEN Just(MathRound(Mean(dayEntries))) ELSE Just(0)

\* dayAverage = Math.round(sum / dayEntries.length), null without entries.
DayAverage(dayEntries) ==
  IF Len(dayEntries) > 0 THEN Just(MathRound(Mean(dayEntries))) ELSE NoData

\* The week view, cell index (0 = Sun): the entries of the week whose
\* new Date(entry.date).getDay() is index, and their dayAverage.
WeekViewDayAverage(z, weekEntries, index) ==
  DayAverage(SelectSeq(weekEntries,
               LAMBDA entry : GetDay(z, ParseDate(entry.date)) = index))

\* sevenDaysAgo.setDate(sevenDaysAgo.getDate() - 6) for a historical day.
HistoricalWeekStart(z, targetDate) ==
  ToISODate(SetDateBack(z, targetDate, WeekBackHistorical))

\* startOfWeek.setDate(targetDate.getDate() - targetDate.getDay()), and
\* endOfWeek.setDate(startOfWeek.getDate() + 6).
StartOfWeek(z, targetDate) == SetDateBack(z, targetDate, GetDay(z, targetDate))
EndOfWeek(z, targetDate) == SetDateBack(z, StartOfWeek(z, targetDate), -6)

\* The call itself, from the effect: nothing to load for the current
\* day/week, otherwise the loading flag is raised and the session awaited.
LoadHistoricalMoodData(l, period, offset) ==
  IF offset = 0
  THEN UNCHANGED << loads, isLoadingHistorical >>
  ELSE /\ loads[l].pc = "idle"
       /\ loads' = [loads EXCEPT ![l] = [pc |-> "session", dateOffset |-> offset,
                                        period |-> period, targetDate |-> 0]]
       /\ isLoadingHistorical' = TRUE

\* A variant without the finally block: a rejected await leaves the flag set.
LoadThrows_NoFinally(l) ==
  /\ loads[l].pc \in {"session", "day", "week", "weekmode"}
  /\ loads' = [loads EXCEPT ![l] = IdleLoad]
  /\ UNCHANGED << envVars, refresh, refreshVars, moodVars, navVars,
                  histVars, recVars, view >>
  /\ UNCHANGED << detailVars, analyticsVars, limitVars >>

\* catch (error) { ... } finally { setIsLoadingHistorical(false) }: an await
\* of the call rejects.
LoadThrows(l) ==
  /\ loads[l].pc \in {"session", "day", "week", "weekmode"}
  /\ loads' = [loads EXCEPT ![l] = IdleLoad]
  /\ isLoadingHistorical' = FALSE
  /\ UNCHANGED << envVars, refresh, refreshVars, moodVars, navVars,
                  historicalMoodData, recVars, view >>
  /\ UNCHANGED << detailVars, analyticsVars, limitVars >>

\* if (!session) { setIsLoadingHistorical(false); return; }
LoadNoSession(l) ==
  /\ loads[l].pc = "session"
  /\ loads' = [loads EXCEPT ![l] = IdleLoad]
  /\ isLoadingHistorical' = FALSE
  /\ UNCHANGED << envVars, refresh, refreshVars, moodVars, navVars,
                  historicalMoodData, recVars, view >>
  /\ UNCHANGED << detailVars, analyticsVars, limitVars >>

\* The session is there: targetDate is taken and the first query is sent.
LoadSession(l) ==
  /\ loads[l].pc = "session"
  /\ loads' = [loads EXCEPT
       ![l].pc = IF loads[l].period = "day" THEN "day" ELSE "weekmode",
       ![l].targetDate = GetCurrentDate(tz, now, loads[l].period, loads[l].dateOffset)]
  /\ UNCHANGED << envVars, refresh, refreshVars, moodVars, navVars, histVars, recVars, view >>
  /\ UNCHANGED << detailVars, analyticsVars, limitVars >>

\* The day query answers with rows: dayMood, entries and weekAverage are
\* replaced, and the query for the week ending that day is sent.
LoadDayOk(l) ==
  /\ loads[l].pc = "day"
  /\ LET dayEntries == DayQuery(db, ToISODate(loads[l].targetDate))
     IN  historicalMoodData' = [dayMood |-> DayAverage(dayEntries),
                                entries |-> dayEntries,
                                weekAverage |-> NoData]
  /\ loads' = [loads EXCEPT ![l].pc = "week"]
  /\ UNCHANGED << envVars, refresh, refreshVars, moodVars, navVars,
                  isLoadingHistorical, recVars, view >>
  /\ UNCHANGED << detailVars, analyticsVars, limitVars >>

\* if (dayError) console.error(...): historicalMoodData is left as it was.
LoadDayError(l) ==
  /\ loads[l].pc = "day"
  /\ loads' = [loads EXCEPT ![l].pc = "week"]
  /\ UNCHANGED << envVars, refresh, refreshVars, moodVars, navVars, histVars, recVars, view >>
  /\ UNCHANGED << detailVars, analyticsVars, limitVars >>

HistoricalWeekEntries(z, table, targetDate) ==
  RangeQuery(table, HistoricalWeekStart(z, targetDate), ToISODate(targetDate))

\* A variant that rounds the week average before storing it.
LoadWeekOk_Rounds(l) ==
  /\ loads[l].pc = "week"
  /\ LET weekEntries == HistoricalWeekEntries(tz, db, loads[l].targetDate)
     IN  historicalMoodData' =
           IF Len(weekEntries) > 0
           THEN [historicalMoodData EXCEPT
                   !.weekAverage = << MathRound(Mean(weekEntries)), 1 >>]
           ELSE historicalMoodData
  /\ loads' = [loads EXCEPT ![l] = IdleLoad]
  /\ isLoadingHistorical' = FALSE
  /\ UNCHANGED << envVars, refresh, refreshVars, moodVars, navVars, recVars, view >>
  /\ UNCHANGED << detailVars, analyticsVars, limitVars >>

\* The week query answers: weekAverage is set only when it returned rows.
LoadWeekOk(l) ==
  /\ loads[l].pc = "week"
  /\ LET weekEntries == HistoricalWeekEntries(tz, db, loads[l].targetDate)
     IN  historicalMoodData' =
           IF Len(weekEntries) > 0
           THEN [historicalMoodData EXCEPT !.weekAverage = Mean(weekEntries)]
           ELSE historicalMoodData
  /\ loads' = [loads EXCEPT ![l] = IdleLoad]
  /\ isLoadingHistorical' = FALSE
  /\ UNCHANGED << envVars, refresh, refreshVars, moodVars, navVars, recVars, view >>
  /\ UNCHANGED << detailVars, analyticsVars, limitVars >>

LoadWeekError(l) ==
  /\ loads[l].pc = "week"
  /\ loads' = [loads EXCEPT ![l] = IdleLoad]
  /\ isLoadingHistorical' = FALSE
  /\ UNCHANGED << envVars, refresh, refreshVars, moodVars, navVars,
                  historicalMoodData, recVars, view >>
  /\ UNCHANGED << detailVars, analyticsVars, limitVars >>

\* Week view: the rows of the Sunday..Saturday week of targetDate.
LoadWeekModeOk(l) ==
  /\ loads[l].pc = "weekmode"
  /\ historicalMoodData' =
       [dayMood |-> NoData,
        entries |-> Reverse(RangeQuery(db,
                      ToISODate(StartOfWeek(tz, loads[l].targetDate)),
                      ToISODate(EndOfWeek(tz, loads[l].targetDate)))),
        weekAverage |-> NoData]
  /\ loads' = [loads EXCEPT ![l] = IdleLoad]
  /\ isLoadingHistorical' = FALSE
  /\ UNCHANGED << envVars, refresh, refreshVars, moodVars, navVars, recVars, view >>
  /\ UNCHANGED << detailVars, analyticsVars, limitVars >>

LoadWeekModeError(l) ==
  /\ loads[l].pc = "weekmode"
  /\ loads' = [loads EXCEPT ![l] = IdleLoad]
  /\ isLoadingHistorical' = FALSE
  /\ UNCHANGED << envVars, refresh, refreshVars, moodVars, navVars,
                  historicalMoodData, recVars, view >>
  /\ UNCHANGED << detailVars, analyticsVars, limitVars >>

\* ------------------------------------------------------ render and effect
\* The "Weekly Mood" cell: average ? Math.round(average) : null, handed to
\* getMoodEmoji and getMoodColor.
WeeklyMoodDisplay(average) ==
  IF average # NoData THEN Just(MathRound(average)) ELSE NoData

\* getMoodColor of the analytics screen: the mood colour 1..5 of an average.
AnalyticsMoodColor(rating) ==
  IF FracLess(rating, << 3, 2 >>) THEN 1
  ELSE IF FracLess(rating, << 5, 2 >>) THEN 2
  ELSE IF FracLess(rating, << 7, 2 >>) THEN 3
  ELSE IF FracLess(rating, << 9, 2 >>) THEN 4
  ELSE 5

\* What a render closes over: the handlers created by it read these values.
Snapshot ==
  [summaryTimePeriod |-> summaryTimePeriod, dateOffset |-> dateOffset,
   todayMood |-> todayMood]

\* The component re-renders.  When dateOffset or summaryTimePeriod changed,
\* the effect calls the new loadHistoricalMoodData.
Render ==
  /\ view # Snapshot
  /\ view' = Snapshot
  /\ IF view.dateOffset # dateOffset \/ view.summaryTimePeriod # summaryTimePeriod
     THEN \E l \in Loads :
            /\ \A k \in Loads : k < l => loads[k].pc # "idle"
            /\ LoadHistoricalMoodData(l, summaryTimePeriod, dateOffset)
     ELSE UNCHANGED << loads, isLoadingHistorical >>
  /\ UNCHANGED << envVars, refresh, refreshVars, moodVars, navVars,
                  historicalMoodData, recVars >>
  /\ UNCHANGED << detailVars, analyticsVars, limitVars >>

\* ------------------------------------------------------------- handlers
\* setDateOffset(prev => prev + 1)
NavigateToPrevious ==
  /\ dateOffset < MaxOffset
  /\ dateOffset' = dateOffset + 1
  /\ UNCHANGED << envVars, refresh, refreshVars, moodVars, summaryTimePeriod,
                  histVars, loads, recVars, view >>
  /\ UNCHANGED << detailVars, analyticsVars, limitVars >>

\* if (canNavigateForward) setDateOffset(prev => prev - 1); the button is
\* disabled while canNavigateForward is false.  canNavigateForward is the
\* value of the render that created the handler; the update is applied to
\* the state as it is.  (Presses are followed down to the first offset
\* below 0.)
NavigateToNext ==
  /\ view.dateOffset > 0
  /\ dateOffset >= 0
  /\ dateOffset' = dateOffset - 1
  /\ UNCHANGED << envVars, refresh, refreshVars, moodVars, summaryTimePeriod,
                  histVars, loads, recVars, view >>
  /\ UNCHANGED << detailVars, analyticsVars, limitVars >>

\* setDateOffset(0)
ResetToToday ==
  /\ dateOffset' = 0
  /\ UNCHANGED << envVars, refresh, refreshVars, moodVars, summaryTimePeriod,
                  histVars, loads, recVars, view >>
  /\ UNCHANGED << detailVars, analyticsVars, limitVars >>

\* setSummaryTimePeriod(other); setDateOffset(0)
ToggleTimePeriod ==
  /\ summaryTimePeriod' = IF view.summaryTimePeriod = "day" THEN "week" ELSE "day"
  /\ dateOffset' = 0
  /\ UNCHANGED << envVars, refresh, refreshVars, moodVars, histVars, loads,
                  recVars, view >>
  /\ UNCHANGED << detailVars, analyticsVars, limitVars >>

\* handleMoodChange(mood): setSelectedMood(mood); if (todayMood !== null)
\* setTodayMood(mood).
HandleMoodChange(mood) ==
  /\ selectedMood' = mood
  /\ todayMood' = IF view.todayMood # NoData THEN mood ELSE todayMood
  /\ UNCHANGED << envVars, refresh, refreshVars, navVars, histVars, loads,
                  recVars, view >>
  /\ UNCHANGED << detailVars, analyticsVars, limitVars >>

\* The AppState listener: the app comes to the foreground.
AppActive(r) ==
  /\ StartRefresh(r, "app")
  /\ UNCHANGED << envVars, refreshVars, moodVars, navVars, histVars, loads,
                  recVars, view >>
  /\ UNCHANGED << detailVars, analyticsVars, limitVars >>

\* The slider has stored a mood for today and calls onMoodSaved:
\* handleMoodSaved awaits refreshMoodData().
HandleMoodSaved(r, rating) ==
  /\ Len(DayQuery(db, ToISODate(now))) < MaxSaves
  /\ db' = << [date |-> ToISODate(now), rating |-> rating] >> \o db
  /\ StartRefresh(r, "saved")
  /\ UNCHANGED << tz, now, subscription, refreshVars, moodVars, navVars,
                  histVars, loads, recVars, view >>
  /\ UNCHANGED << detailVars, analyticsVars, limitVars >>

\* The texts a user submits with a mood.
DetailTexts == { "", "tired after work" }

\* handleMoodDetailsSubmitted(rating, details) up to its await:
\* setIsLoadingActivities(true); setLastMoodDetails(details); the request for
\* recommendations is sent.
HandleMoodDetailsSubmitted(s, details) ==
  /\ submissions[s].pc = "idle"
  /\ \A k \in Submissions : k < s => submissions[k].pc # "idle"
  /\ isLoadingActivities' = TRUE
  /\ lastMoodDetails' = details
  /\ submissions' = [submissions EXCEPT ![s] = [pc |-> "recs", outcome |-> "none"]]
  /\ UNCHANGED << envVars, refresh, refreshVars, moodVars, navVars, histVars, loads,
                  isPremium, activities, hasMoodInput, view, analyticsVars, limitVars >>

\* getActivityRecommendations answers: setActivities(recommendedActivities);
\* setHasMoodInput(true); finally setIsLoadingActivities(false).
SubmittedRecsOk(s, list) ==
  /\ submissions[s].pc = "recs"
  /\ activities' = Just(list)
  /\ hasMoodInput' = TRUE
  /\ isLoadingActivities' = FALSE
  /\ submissions' = [submissions EXCEPT ![s] = [pc |-> "done", outcome |-> "ok"]]
  /\ UNCHANGED << envVars, refresh, refreshVars, moodVars, navVars, histVars, loads,
                  isPremium, lastMoodDetails, view, analyticsVars, limitVars >>

\* A variant whose catch leaves the list as it is.
SubmittedRecsFail_KeepsList(s) ==
  /\ submissions[s].pc = "recs"
  /\ isLoadingActivities' = FALSE
  /\ submissions' = [submissions EXCEPT ![s] = [pc |-> "done", outcome |-> "failed"]]
  /\ UNCHANGED << envVars, refresh, refreshVars, moodVars, navVars, histVars, loads,
                  isPremium, activities, hasMoodInput, lastMoodDetails, view, analyticsVars, limitVars >>

\* getActivityRecommendations rejects: catch setActivities(null); finally
\* setIsLoadingActivities(false).
SubmittedRecsFail(s) ==
  /\ submissions[s].pc = "recs"
  /\ activities' = NoData
  /\ isLoadingActivities' = FALSE
  /\ submissions' = [submissions EXCEPT ![s] = [pc |-> "done", outcome |-> "failed"]]
  /\ UNCHANGED << envVars, refresh, refreshVars, moodVars, navVars, histVars, loads,
                  isPremium, hasMoodInput, lastMoodDetails, view, analyticsVars, limitVars >>

\* ------------------------------------------------ refreshRecommendations
\* generateRecommendationsWithDetails / generateRecommendationsBasedOnMood up
\* to their first await: setIsLoadingActivities(true), then the request to
\* getActivityRecommendations is sent (with details) or getRecentMoodEntries
\* is awaited first (without).  trim() leaves the texts of this model as
\* they are.
StartGenerate(u, premium) ==
  /\ isLoadingActivities' = TRUE
  /\ IF lastMoodDetails # ""
     THEN /\ updates' = [updates EXCEPT ![u] = [pc |-> "recs", premium |-> premium]]
          /\ serviceCalls' = serviceCalls + 1
     ELSE /\ updates' = [updates EXCEPT ![u] = [pc |-> "recent", premium |-> premium]]
          /\ UNCHANGED serviceCalls

\* generateRecommendations... has returned (its catch swallows the failure,
\* its finally has cleared the loading flag): a free user's call awaits
\* AsyncStorage.setItem, a premium user's call scrolls and ends.
AfterGenerate(u) ==
  /\ isLoadingActivities' = FALSE
  /\ updates' = [updates EXCEPT ![u].pc = IF updates[u].premium THEN "done" ELSE "setItem"]

\* The button is pressed: if (!todayMood) return; a free user's call awaits
\* AsyncStorage.getItem('free_user_mood_updated'), a premium user's call
\* goes on to the request.  todayMood is the value of the render that created
\* the handler.
RefreshRecommendations(u) ==
  /\ screen = "Home"
  /\ updates[u].pc = "idle"
  /\ \A k \in Updates : k < u => updates[k].pc # "idle"
  /\ view.todayMood # NoData
  /\ IF isPremium
     THEN StartGenerate(u, TRUE)
     ELSE /\ updates' = [updates EXCEPT ![u] = [pc |-> "getItem", premium |-> FALSE]]
          /\ UNCHANGED << isLoadingActivities, serviceCalls >>
  /\ UNCHANGED << envVars, refresh, refreshVars, moodVars, navVars, histVars, loads,
                  isPremium, activities, detailVars, view, freeUserMoodUpdated,
                  screen, analyticsVars >>

\* getItem answers: if (hasUpdated === 'true') { navigation.navigate(
\* 'SubscriptionComparison', ...); return; } otherwise
\* setIsLoadingActivities(true) and the recommendations are generated.
RecommendationsGetItem(u) ==
  /\ updates[u].pc = "getItem"
  /\ IF freeUserMoodUpdated
     THEN /\ screen' = "SubscriptionComparison"
          /\ updates' = [updates EXCEPT ![u].pc = "done"]
          /\ UNCHANGED << isLoadingActivities, serviceCalls >>
     ELSE /\ StartGenerate(u, FALSE)
          /\ UNCHANGED screen
  /\ UNCHANGED << envVars, refresh, refreshVars, moodVars, navVars, histVars, loads,
                  isPremium, activities, detailVars, view, freeUserMoodUpdated,
                  analyticsVars >>

\* getItem rejects: the await is outside the try, the call ends there.
RecommendationsGetItemFails(u) ==
  /\ updates[u].pc = "getItem"
  /\ updates' = [updates EXCEPT ![u].pc = "done"]
  /\ UNCHANGED << envVars, refresh, refreshVars, moodVars, navVars, histVars, loads,
                  recVars, detailVars, view, freeUserMoodUpdated, serviceCalls,
                  screen, analyticsVars >>

\* getRecentMoodEntries(7) answers: the request to getActivityRecommendations
\* is sent.
RecommendationsRecent(u) ==
  /\ updates[u].pc = "recent"
  /\ updates' = [updates EXCEPT ![u].pc = "recs"]
  /\ serviceCalls' = serviceCalls + 1
  /\ UNCHANGED << envVars, refresh, refreshVars, moodVars, navVars, histVars, loads,
                  recVars, detailVars, view, freeUserMoodUpdated, screen,
                  analyticsVars >>

\* getRecentMoodEntries(7) rejects: catch setActivities(null); finally
\* setIsLoadingActivities(false); refreshRecommendations goes on.
RecommendationsRecentFails(u) ==
  /\ updates[u].pc = "recent"
  /\ activities' = NoData
  /\ AfterGenerate(u)
  /\ UNCHANGED << envVars, refresh, refreshVars, moodVars, navVars, histVars, loads,
                  isPremium, detailVars, view, freeUserMoodUpdated, serviceCalls,
                  screen, analyticsVars >>

\* getActivityRecommendations answers: setActivities(recommendedActivities);
\* finally setIsLoadingActivities(false); refreshRecommendations goes on.
RecommendationsOk(u, list) ==
  /\ updates[u].pc = "recs"
  /\ activities' = Just(list)
  /\ AfterGenerate(u)
  /\ UNCHANGED << envVars, refresh, refreshVars, moodVars, navVars, histVars, loads,
                  isPremium, detailVars, view, freeUserMoodUpdated, serviceCalls,
                  screen, analyticsVars >>

\* getActivityRecommendations rejects: catch setActivities(null); finally
\* setIsLoadingActivities(false); refreshRecommendations goes on.
RecommendationsFail(u) ==
  /\ updates[u].pc = "recs"
  /\ activities' = NoData
  /\ AfterGenerate(u)
  /\ UNCHANGED << envVars, refresh, refreshVars, moodVars, navVars, histVars, loads,
                  isPremium, detailVars, view, freeUserMoodUpdated, serviceCalls,
                  screen, analyticsVars >>

\* AsyncStorage.setItem('free_user_mood_updated', 'true') is done;
\* scrollToActivities(); finally setIsLoadingActivities(false).
RecommendationsSetItem(u) ==
  /\ updates[u].pc = "setItem"
  /\ freeUserMoodUpdated' = TRUE
  /\ isLoadingActivities' = FALSE
  /\ updates' = [updates EXCEPT ![u].pc = "done"]
  /\ UNCHANGED << envVars, refresh, refreshVars, moodVars, navVars, histVars, loads,
                  isPremium, activities, detailVars, view, serviceCalls, screen,
                  analyticsVars >>

\* setItem rejects: catch setActivities(null); finally
\* setIsLoadingActivities(false).
RecommendationsSetItemFails(u) ==
  /\ updates[u].pc = "setItem"
  /\ activities' = NoData
  /\ isLoadingActivities' = FALSE
  /\ updates' = [updates EXCEPT ![u].pc = "done"]
  /\ UNCHANGED << envVars, refresh, refreshVars, moodVars, navVars, histVars, loads,
                  isPremium, detailVars, view, freeUserMoodUpdated, serviceCalls,
                  screen, analyticsVars >>

\* Midnight (UTC) passes: a new day begins.
NextDay ==
  /\ ToISODate(now) < MaxDay
  /\ now' = now + 24
  /\ UNCHANGED << tz, db, subscription, refresh, refreshVars, moodVars, navVars,
                  histVars, loads, recVars, view >>
  /\ UNCHANGED << detailVars, analyticsVars, limitVars >>

\* ------------------------------------------------------- initial values
\* The useState initial values of HomeScreen.
MountedState ==
  /\ streak = 0
  /\ weeklyAverage = NoData
  /\ weeklyMoodEntries = << >>
  /\ todayMood = NoData
  /\ selectedMood = NoData
  /\ summaryTimePeriod = "day"
  /\ dateOffset = 0
  /\ historicalMoodData = InitialHistorical
  /\ isLoadingHistorical = FALSE
  /\ loads = [l \in Loads |-> IdleLoad]
  /\ isPremium = FALSE
  /\ activities = NoData
  /\ isLoadingActivities = FALSE
  /\ hasMoodInput = FALSE
  /\ lastMoodDetails = ""
  /\ submissions = [s \in Submissions |-> IdleSubmission]
  /\ LimitMounted
  /\ view = [summaryTimePeriod |-> "day", dateOffset |-> 0, todayMood |-> NoData]

\* The analytics screen is not open: its state holds the useState initial values.
AnalyticsMounted ==
  /\ isLoading = TRUE
  /\ moodEntries = << >>
  /\ hasEnoughData = FALSE
  /\ moodPatterns = << >>
  /\ moodTriggers = << >>

AnalyticsClosed == AnalyticsMounted /\ loadMoodData = "closed"

\* ------------------------------------------------- the streak computation
\* The query for all entries has been sent; its answer is what remains.
StreakTables == Tables(Dates, {3}, MaxEntries + 1)

InitStreak ==
  /\ tz \in Zones
  /\ now = 24 * MaxDay
  /\ db \in StreakTables
  /\ subscription = "free"
  /\ refresh = [r \in Runs |-> IF r = 1 THEN [IdleRun EXCEPT !.pc = "entries", !.caller = "mount"]
                                ELSE IdleRun]
  /\ MountedState
  /\ AnalyticsClosed

NextStreak == AllEntriesOk(1) \/ AllEntriesError(1)

SpecStreak == InitStreak /\ [][NextStreak]_vars

\* The streak over a long history: the table holds one entry for each day of
\* an unbroken run that ends today or yesterday; the runs are short ones and
\* ones about as long as the walk reaches.
MaxHistory == 372
ShortRun == 12

RunTable(last, len) == [i \in 1..len |-> [date |-> last - i + 1, rating |-> 3]]

RunLengths == (0..ShortRun) \cup ((LookbackDays - 1)..(MaxHistory + 1))

HistoryTables ==
  { RunTable(last, len) : last \in {MaxHistory - 1, MaxHistory},
                          len \in { n \in RunLengths : n <= MaxHistory } }

InitHistory ==
  /\ tz \in Zones
  /\ now = 24 * MaxHistory
  /\ db \in HistoryTables
  /\ subscription = "free"
  /\ refresh = [r \in Runs |-> IF r = 1 THEN [IdleRun EXCEPT !.pc = "entries", !.caller = "mount"]
                                ELSE IdleRun]
  /\ MountedState
  /\ AnalyticsClosed

SpecHistory == InitHistory /\ [][NextStreak]_vars

\* ------------------------------------------------------------ HomeScreen
\* The screen has mounted and loadUserData has called refreshMoodData.
HomeRatings == {2, 5}
Moods == { NoData } \cup { Just(m) : m \in HomeRatings }

InitHome ==
  /\ tz = [std |-> 0, kind |-> "none", at |-> 0]
  /\ now = 24 * (MaxDay - 1) + 12
  /\ db \in Tables({MaxDay - 1}, {4}, 1)
  /\ subscription \in {"free", "premium"}
  /\ refresh = [r \in Runs |-> IF r = 1 THEN [IdleRun EXCEPT !.pc = "session", !.caller = "mount"]
                                ELSE IdleRun]
  /\ MountedState
  /\ AnalyticsClosed

RefreshStep(r) ==
  \/ RefreshSession(r)
  \/ RefreshTier(r)
  \/ \E rating \in Ratings : RefreshTodayFound(r, rating)
  \/ RefreshTodayNone(r)
  \/ RefreshRemoveItem(r)
  \/ \E list \in ActivityLists : RefreshRecsOk(r, list)
  \/ RefreshRecsFail(r)
  \/ RefreshDetailed(r)
  \/ AllEntriesOk(r)
  \/ AllEntriesError(r)
  \/ RefreshStops(r)

LoadStep(l) ==
  \/ LoadSession(l)
  \/ LoadDayOk(l)
  \/ LoadWeekOk(l)
  \/ LoadWeekModeOk(l)
  \/ LoadNoSession(l)
  \/ LoadDayError(l)
  \/ LoadWeekError(l)
  \/ LoadWeekModeError(l)
  \/ LoadThrows(l)

\* ------------------------------------------- the summary, one call at a time
\* The user has pressed "previous" and the period toggle some times since the
\* last render, and a refresh is waiting for the answer with all entries.
Quiet == view = Snapshot /\ \A l \in Loads : loads[l].pc = "idle"

InitSummary(tables) ==
  /\ tz \in Zones
  /\ now \in { 24 * MaxDay + h : h \in NowHours }
  /\ db \in tables
  /\ subscription = "free"
  /\ refresh = [r \in Runs |-> IF r = 1 THEN [IdleRun EXCEPT !.pc = "entries", !.caller = "mount"]
                                ELSE IdleRun]
  /\ streak = 0
  /\ weeklyAverage = NoData
  /\ weeklyMoodEntries = << >>
  /\ todayMood = NoData
  /\ selectedMood = NoData
  /\ summaryTimePeriod \in {"day", "week"}
  /\ dateOffset \in 0..MaxOffset
  /\ historicalMoodData = InitialHistorical
  /\ isLoadingHistorical = FALSE
  /\ loads = [l \in Loads |-> IdleLoad]
  /\ isPremium = FALSE
  /\ activities = NoData
  /\ isLoadingActivities = FALSE
  /\ hasMoodInput = FALSE
  /\ lastMoodDetails = ""
  /\ submissions = [s \in Submissions |-> IdleSubmission]
  /\ LimitMounted
  /\ view = [summaryTimePeriod |-> "day", dateOffset |-> 0, todayMood |-> NoData]
  /\ AnalyticsClosed

NextSummary ==
  \/ Quiet /\ AllEntriesOk(1)
  \/ Quiet /\ AllEntriesError(1)
  \/ Render
  \/ \E l \in Loads : LoadStep(l)

InitDay == InitSummary(Tables({MaxDay - 2, MaxDay - 1}, Ratings, MaxEntries + 1))

SpecDay == InitDay /\ [][NextSummary]_vars

\* The same summary over rows whose rating column holds values outside 1..5
\* as well: the table is filled by other clients too, and no query of the
\* screen filters on the rating.
StoredRatings == {0, 3, 7}
InitRows == InitSummary(Tables({MaxDay - 2, MaxDay - 1}, StoredRatings, MaxEntries))

SpecRows == InitRows /\ [][NextSummary]_vars

NextWeek ==
  \/ NextSummary
  \/ Quiet /\ NavigateToPrevious
  \/ Quiet /\ NavigateToNext

InitWeek == InitSummary(Tables(Dates, {2, 5}, MaxEntries))

SpecWeek == InitWeek /\ [][NextWeek]_vars

\* The mood check-in: refreshMoodData runs against the slider and the
\* AppState listener.
NextMood ==
  \/ \E r \in Runs : RefreshStep(r)
  \/ \E mood \in Moods : HandleMoodChange(mood)
  \/ \E r \in Runs : AppActive(r)
  \/ \E r \in Runs, rating \in HomeRatings : HandleMoodSaved(r, rating)
  \/ Render
  \/ NextDay

SpecMood == InitHome /\ [][NextMood]_vars

\* The recommendations: refreshMoodData runs against the submissions of mood
\* details and the AppState listener.
NextRecs ==
  \/ \E r \in Runs : RefreshStep(r)
  \/ \E r \in Runs : AppActive(r)
  \/ \E s \in Submissions, details \in DetailTexts : HandleMoodDetailsSubmitted(s, details)
  \/ \E s \in Submissions, list \in ActivityLists : SubmittedRecsOk(s, list)
  \/ \E s \in Submissions : SubmittedRecsFail(s)

SpecRecs == InitHome /\ [][NextRecs]_vars

\* The summary navigation: the four buttons of the summary card run against
\* the renders and the loads the renders start.
\* A handler reads the values of the render that created it (view), so a
\* press can be handled before the state it changed has been rendered.
\* The table holds one entry for yesterday and one for the day before.
NavTable ==
  << [date |-> MaxDay - 2, rating |-> 2], [date |-> MaxDay - 3, rating |-> 5] >>

\* The mount run of refreshMoodData has completed for a free user without
\* an entry for today.
InitNav ==
  /\ tz = [std |-> 0, kind |-> "none", at |-> 0]
  /\ now = 24 * (MaxDay - 1) + 12
  /\ db = NavTable
  /\ subscription = "free"
  /\ refresh = [r \in Runs |-> IF r = 1 THEN [IdleRun EXCEPT !.outcome = "entries"]
                                ELSE IdleRun]
  /\ streak = ComputeStreak(tz, db)
  /\ weeklyAverage = AverageOrNull(CurrentWeekEntries(tz, now, db))
  /\ weeklyMoodEntries = CurrentWeekEntries(tz, now, db)
  /\ todayMood = NoData
  /\ selectedMood = NoData
  /\ summaryTimePeriod = "day"
  /\ dateOffset = 0
  /\ historicalMoodData = InitialHistorical
  /\ isLoadingHistorical = FALSE
  /\ loads = [l \in Loads |-> IdleLoad]
  /\ isPremium = FALSE
  /\ activities = NoData
  /\ isLoadingActivities = FALSE
  /\ hasMoodInput = FALSE
  /\ lastMoodDetails = ""
  /\ submissions = [s \in Submissions |-> IdleSubmission]
  /\ LimitMounted
  /\ view = [summaryTimePeriod |-> "day", dateOffset |-> 0, todayMood |-> NoData]
  /\ AnalyticsClosed

NextNav ==
  \/ NavigateToPrevious
  \/ NavigateToNext
  \/ ResetToToday
  \/ ToggleTimePeriod
  \/ Render
  \/ \E l \in Loads : LoadStep(l)

SpecNav == InitNav /\ [][NextNav]_vars

\* The same navigation with a backend that answers every call: each load
\* runs to its end without an error.
LoadAnswers(l) ==
  \/ LoadSession(l)
  \/ LoadDayOk(l)
  \/ LoadWeekOk(l)
  \/ LoadWeekModeOk(l)

NextAnswered ==
  \/ NavigateToPrevious
  \/ NavigateToNext
  \/ ResetToToday
  \/ ToggleTimePeriod
  \/ Render
  \/ \E l \in Loads : LoadAnswers(l)

SpecAnswered == InitNav /\ [][NextAnswered]_vars

\* The refresh of the recommendations: the screen has mounted, the mount run
\* of refreshMoodData is under way, and the flag of the free tier may be in
\* the storage from an earlier session.
InitLimit ==
  /\ tz = [std |-> 0, kind |-> "none", at |-> 0]
  /\ now = 24 * (MaxDay - 1) + 12
  /\ db \in Tables({MaxDay - 1}, {4}, 1)
  /\ subscription \in {"free", "premium"}
  /\ refresh = [r \in Runs |-> IF r = 1 THEN [IdleRun EXCEPT !.pc = "session", !.caller = "mount"]
                                ELSE IdleRun]
  /\ streak = 0
  /\ weeklyAverage = NoData
  /\ weeklyMoodEntries = << >>
  /\ todayMood = NoData
  /\ selectedMood = NoData
  /\ summaryTimePeriod = "day"
  /\ dateOffset = 0
  /\ historicalMoodData = InitialHistorical
  /\ isLoadingHistorical = FALSE
  /\ loads = [l \in Loads |-> IdleLoad]
  /\ isPremium = FALSE
  /\ activities = NoData
  /\ isLoadingActivities = FALSE
  /\ hasMoodInput = FALSE
  /\ lastMoodDetails = ""
  /\ submissions = [s \in Submissions |-> IdleSubmission]
  /\ view = [summaryTimePeriod |-> "day", dateOffset |-> 0, todayMood |-> NoData]
  /\ freeUserMoodUpdated \in BOOLEAN
  /\ updates = [u \in Updates |-> IdleUpdate]
  /\ serviceCalls = 0
  /\ screen = "Home"
  /\ AnalyticsClosed

UpdateStep(u) ==
  \/ RefreshRecommendations(u)
  \/ RecommendationsGetItem(u)
  \/ RecommendationsGetItemFails(u)
  \/ RecommendationsRecent(u)
  \/ RecommendationsRecentFails(u)
  \/ \E list \in ActivityLists : RecommendationsOk(u, list)
  \/ RecommendationsFail(u)
  \/ RecommendationsSetItem(u)
  \/ RecommendationsSetItemFails(u)

NextLimit ==
  \/ RefreshStep(1)
  \/ Render
  \/ \E u \in Updates : UpdateStep(u)

SpecLimit == InitLimit /\ [][NextLimit]_vars

\* The two loading flags together.  The mount run of refreshMoodData has
\* completed for a free user with an entry rated 4 for today, its
\* recommendations are shown, and the screen has rendered.  The user walks
\* back through the summary, submits mood details and refreshes the
\* recommendations.
InitFlags ==
  /\ tz = [std |-> 0, kind |-> "none", at |-> 0]
  /\ now = 24 * (MaxDay - 1) + 12
  /\ db = << [date |-> MaxDay - 1, rating |-> 4] >>
  /\ subscription = "free"
  /\ refresh = [r \in Runs |-> IF r = 1 THEN [IdleRun EXCEPT !.outcome = "entries"]
                                ELSE IdleRun]
  /\ streak = ComputeStreak(tz, db)
  /\ weeklyAverage = AverageOrNull(CurrentWeekEntries(tz, now, db))
  /\ weeklyMoodEntries = CurrentWeekEntries(tz, now, db)
  /\ todayMood = Just(4)
  /\ selectedMood = Just(4)
  /\ summaryTimePeriod = "day"
  /\ dateOffset = 0
  /\ historicalMoodData = InitialHistorical
  /\ isLoadingHistorical = FALSE
  /\ loads = [l \in Loads |-> IdleLoad]
  /\ isPremium = FALSE
  /\ activities = Just(<< "activity" >>)
  /\ isLoadingActivities = FALSE
  /\ hasMoodInput = TRUE
  /\ lastMoodDetails = ""
  /\ submissions = [s \in Submissions |-> IdleSubmission]
  /\ view = [summaryTimePeriod |-> "day", dateOffset |-> 0, todayMood |-> Just(4)]
  /\ LimitMounted
  /\ AnalyticsClosed

NextFlags ==
  \/ Render
  \/ NavigateToPrevious
  \/ ToggleTimePeriod
  \/ \E l \in Loads : LoadStep(l)
  \/ UpdateStep(1)
  \/ \E details \in DetailTexts : HandleMoodDetailsSubmitted(1, details)
  \/ \E list \in ActivityLists : SubmittedRecsOk(1, list)
  \/ SubmittedRecsFail(1)

SpecFlags == InitFlags /\ [][NextFlags]_vars

\* ------------------------------------------- AdvancedMoodAnalyticsScreen
\* An entry of this screen is [date, rating, details]; details is the note as
\* the sequence of its characters. A missing note (null, undefined) and the
\* note '' are both the empty sequence: !entry.details holds of each of them.
DaysOfWeek ==
  << "Sunday", "Monday", "Tuesday", "Wednesday", "Thursday", "Friday", "Saturday" >>

\* entries.length >= 10
MinEntries == 10

\* new Date(entry.date).getDay(), 0 = Sunday
EntryDay(z, entry) == GetDay(z, ParseDate(entry.date))

\* entriesByDay: one { day, entries, averageMood } per name of daysOfWeek.
EntriesByDay(z, entries) ==
  [d \in 1..Len(DaysOfWeek) |->
     LET dayEntries == SelectSeq(entries, LAMBDA entry : EntryDay(z, entry) = d - 1)
     IN  [day |-> DaysOfWeek[d],
          entries |-> dayEntries,
          averageMood |-> IF Len(dayEntries) > 0 THEN Mean(dayEntries) ELSE NoData]]

\* An unstable variant: an element goes in front of the elements it ties with.
RECURSIVE InsertSorted_BeforeEqual(_, _)
InsertSorted_BeforeEqual(sorted, x) ==
  IF sorted = << >> THEN << x >>
  ELSE IF ~FracLess(sorted[1].key, x.key) THEN << x >> \o sorted
  ELSE << sorted[1] >> \o InsertSorted_BeforeEqual(Tail(sorted), x)

\* Array.prototype.sort is stable: an element goes in front of the first
\* element it compares strictly before, behind every element it ties with.
RECURSIVE InsertSorted(_, _)
InsertSorted(sorted, x) ==
  IF sorted = << >> THEN << x >>
  ELSE IF FracLess(x.key, sorted[1].key) THEN << x >> \o sorted
  ELSE << sorted[1] >> \o InsertSorted(Tail(sorted), x)

RECURSIVE SortKeyed(_)
SortKeyed(keyed) ==
  IF keyed = << >> THEN << >>
  ELSE InsertSorted(SortKeyed(SubSeq(keyed, 1, Len(keyed) - 1)), keyed[Len(keyed)])

\* items.sort((a, b) => keys[a] - keys[b])
ArraySort(items, keys) ==
  LET sorted == SortKeyed([i \in 1..Len(items) |-> [key |-> keys[i], item |-> items[i]]])
  IN  [i \in 1..Len(items) |-> sorted[i].item]

\* (x || 0) of a nullable average, and the value of a nullable average in an if
OrZero(average) == IF average = NoData \/ average[1] = 0 THEN << 0, 1 >> ELSE average
Truthy(average) == average # NoData /\ average[1] # 0
Negated(f) == << 0 - f[1], f[2] >>

\* .filter(day => day.averageMood !== null)
WithData(byDay) == SelectSeq(byDay, LAMBDA day : day.averageMood # NoData)

\* A variant that sorts ascending and takes the last element.
HighestMoodDay_FromAscending(byDay) ==
  LET days == WithData(byDay)
      sorted == ArraySort(days, [i \in 1..Len(days) |-> OrZero(days[i].averageMood)])
  IN  IF Len(sorted) = 0 THEN NoData ELSE Just(sorted[Len(sorted)])

\* [...entriesByDay].filter(...).sort((a, b) => (b.averageMood || 0) - (a.averageMood || 0))[0]
HighestMoodDay(byDay) ==
  LET days == WithData(byDay)
      sorted == ArraySort(days, [i \in 1..Len(days) |-> Negated(OrZero(days[i].averageMood))])
  IN  IF Len(sorted) = 0 THEN NoData ELSE Just(sorted[1])

\* A variant that sorts the empty buckets along, as averages of 0.
LowestMoodDay_Unfiltered(byDay) ==
  LET sorted == ArraySort(byDay, [i \in 1..Len(byDay) |-> OrZero(byDay[i].averageMood)])
  IN  IF Len(sorted) = 0 THEN NoData ELSE Just(sorted[1])

\* [...entriesByDay].filter(...).sort((a, b) => (a.averageMood || 0) - (b.averageMood || 0))[0]
LowestMoodDay(byDay) ==
  LET days == WithData(byDay)
      sorted == ArraySort(days, [i \in 1..Len(days) |-> OrZero(days[i].averageMood)])
  IN  IF Len(sorted) = 0 THEN NoData ELSE Just(sorted[1])

\* if (day && day.averageMood) patterns.push({ day: day.day, pattern, description })
\* (the description text is left out of the pattern)
DayPattern(found, pattern) ==
  IF found # NoData /\ Truthy(found[1].averageMood)
  THEN << [day |-> found[1].day, pattern |-> pattern] >>
  ELSE << >>

\* weekdayEntries (Monday to Friday), weekendEntries (Sunday or Saturday)
WeekdayEntries(z, entries) ==
  SelectSeq(entries, LAMBDA entry : EntryDay(z, entry) >= 1 /\ EntryDay(z, entry) <= 5)
WeekendEntries(z, entries) ==
  SelectSeq(entries, LAMBDA entry : EntryDay(z, entry) = 0 \/ EntryDay(z, entry) = 6)

\* length > 0 ? sum / length : 0
AverageOrZero(es) == IF Len(es) > 0 THEN Mean(es) ELSE << 0, 1 >>

\* A quotient of small integers is a double without rounding error exactly
\* when its reduced denominator is a power of two.
ExactDouble(f) == \E p \in {1, 2, 4, 8, 16, 32, 64} : (f[1] * p) % f[2] = 0

\* sum / length is the double nearest to the quotient: 52 bits behind the
\* leading one. Binade is the e with 2^e <= f < 2^(e+1), for f in [1, 8).
MantissaBits == 52
InBinades(f) == f[1] >= f[2] /\ f[1] < 8 * f[2]
Binade(f) == IF f[1] >= 4 * f[2] THEN 2 ELSE IF f[1] >= 2 * f[2] THEN 1 ELSE 0

RECURSIVE PowerOfTwoMod(_, _)
PowerOfTwoMod(k, n) == IF k = 0 THEN 1 % n ELSE (2 * PowerOfTwoMod(k - 1, n)) % n

\* The rounding error of the division (double minus quotient), as a fraction
\* of 2^-52: the quotient scaled to its last bit leaves the remainder r / n,
\* which rounds down when below one half and up when above.
DivisionError(f) ==
  LET r == (f[1] * PowerOfTwoMod(MantissaBits - Binade(f), f[2])) % f[2]
      units == IF 2 * r < f[2] THEN 0 - r ELSE f[2] - r
  IN  << units * (IF Binade(f) = 2 THEN 4 ELSE IF Binade(f) = 1 THEN 2 ELSE 1), f[2] >>

\* Math.abs(a - b) > 0.5 on doubles. Away from one half the rounding errors
\* cannot change the answer. At exactly one half the subtraction of the two
\* doubles is exact, so the result is above 0.5 exactly when the larger
\* quotient was rounded further up than the smaller one. Outside [1, 8) the
\* outcomes the subtraction can have are kept open.
ExceedsHalf(a, b) ==
  LET d == a[1] * b[2] - b[1] * a[2]
      twice == 2 * (IF d < 0 THEN 0 - d ELSE d)
      hi == IF d < 0 THEN b ELSE a
      lo == IF d < 0 THEN a ELSE b
  IN  IF twice > a[2] * b[2] THEN { TRUE }
      ELSE IF twice < a[2] * b[2] THEN { FALSE }
      ELSE IF InBinades(a) /\ InBinades(b)
           THEN { FracLess(DivisionError(lo), DivisionError(hi)) }
      ELSE IF ExactDouble(a) /\ ExactDouble(b) THEN { FALSE }
      ELSE { TRUE, FALSE }

\* (hi - lo).toFixed(1) for hi >= lo, as << whole, tenth >>: the tenth nearest
\* to the double, the larger one when the double lies exactly between two.
\* When the quotient difference lies exactly between two tenths the rounding
\* errors decide: known when the subtraction is exact (hi <= 2 * lo, or both
\* doubles exact), otherwise both tenths are outcomes.
ToFixed1(hi, lo) ==
  LET num == 10 * (hi[1] * lo[2] - lo[1] * hi[2])
      den == hi[2] * lo[2]
      q == num \div den
      rem == num % den
      Tenths(n) == << n \div 10, n % 10 >>
  IN  IF 2 * rem < den THEN { Tenths(q) }
      ELSE IF 2 * rem > den THEN { Tenths(q + 1) }
      ELSE IF ExactDouble(hi) /\ ExactDouble(lo) THEN { Tenths(q + 1) }
      ELSE IF InBinades(hi) /\ InBinades(lo) /\ hi[1] * lo[2] <= 2 * lo[1] * hi[2]
           THEN IF FracLess(DivisionError(hi), DivisionError(lo))
                THEN { Tenths(q) } ELSE { Tenths(q + 1) }
      ELSE { Tenths(q), Tenths(q + 1) }

\* A variant of the weekend pattern without the test for empty groups.
WeekendPatterns_Unguarded(z, entries) ==
  LET weekdayAvg == AverageOrZero(WeekdayEntries(z, entries))
      weekendAvg == AverageOrZero(WeekendEntries(z, entries))
      Emitted(exceeds) ==
        IF exceeds
        THEN IF FracLess(weekdayAvg, weekendAvg)
             THEN { << [day |-> "Weekend", pattern |-> "Weekend Boost", points |-> points] >> :
                       points \in ToFixed1(weekendAvg, weekdayAvg) }
             ELSE { << [day |-> "Weekday", pattern |-> "Weekday Preference",
                        points |-> points] >> :
                       points \in ToFixed1(weekdayAvg, weekendAvg) }
        ELSE { << >> }
  IN  UNION { Emitted(exceeds) : exceeds \in ExceedsHalf(weekdayAvg, weekendAvg) }

\* The weekend-versus-weekday pattern, one result per outcome of the test and
\* of the formatting; points is the number the description quotes.
WeekendPatterns(z, entries) ==
  LET weekdayEntries == WeekdayEntries(z, entries)
      weekendEntries == WeekendEntries(z, entries)
      weekdayAvg == AverageOrZero(weekdayEntries)
      weekendAvg == AverageOrZero(weekendEntries)
      Emitted(exceeds) ==
        IF exceeds /\ Len(weekdayEntries) > 0 /\ Len(weekendEntries) > 0
        THEN IF FracLess(weekdayAvg, weekendAvg)
             THEN { << [day |-> "Weekend", pattern |-> "Weekend Boost", points |-> points] >> :
                       points \in ToFixed1(weekendAvg, weekdayAvg) }
             ELSE { << [day |-> "Weekday", pattern |-> "Weekday Preference",
                        points |-> points] >> :
                       points \in ToFixed1(weekdayAvg, weekendAvg) }
        ELSE { << >> }
  IN  UNION { Emitted(exceeds) : exceeds \in ExceedsHalf(weekdayAvg, weekendAvg) }

\* triggerWords, each with its capitalised form
\* (trigger.charAt(0).toUpperCase() + trigger.slice(1))
PositiveWords ==
  << "exercise", "workout", "friend", "family", "nature", "outdoors", "sleep", "rest",
     "meditation", "hobby" >>
NegativeWords ==
  << "work", "stress", "tired", "sick", "argument", "conflict", "deadline", "anxiety",
     "worry" >>
Capitalized ==
  [exercise |-> "Exercise", workout |-> "Workout", friend |-> "Friend", family |-> "Family",
   nature |-> "Nature", outdoors |-> "Outdoors", sleep |-> "Sleep", rest |-> "Rest",
   meditation |-> "Meditation", hobby |-> "Hobby", work |-> "Work", stress |-> "Stress",
   tired |-> "Tired", sick |-> "Sick", argument |-> "Argument", conflict |-> "Conflict",
   deadline |-> "Deadline", anxiety |-> "Anxiety", worry |-> "Worry"]

\* The words in the order one entry is scanned for them.
ScanOrder == PositiveWords \o NegativeWords
WordType(w) == IF w <= Len(PositiveWords) THEN "positive" ELSE "negative"

\* The characters of each word of triggerWords.
Spelling ==
  [exercise |-> << "e", "x", "e", "r", "c", "i", "s", "e" >>,
   workout |-> << "w", "o", "r", "k", "o", "u", "t" >>,
   friend |-> << "f", "r", "i", "e", "n", "d" >>,
   family |-> << "f", "a", "m", "i", "l", "y" >>,
   nature |-> << "n", "a", "t", "u", "r", "e" >>,
   outdoors |-> << "o", "u", "t", "d", "o", "o", "r", "s" >>,
   sleep |-> << "s", "l", "e", "e", "p" >>,
   rest |-> << "r", "e", "s", "t" >>,
   meditation |-> << "m", "e", "d", "i", "t", "a", "t", "i", "o", "n" >>,
   hobby |-> << "h", "o", "b", "b", "y" >>,
   work |-> << "w", "o", "r", "k" >>,
   stress |-> << "s", "t", "r", "e", "s", "s" >>,
   tired |-> << "t", "i", "r", "e", "d" >>,
   sick |-> << "s", "i", "c", "k" >>,
   argument |-> << "a", "r", "g", "u", "m", "e", "n", "t" >>,
   conflict |-> << "c", "o", "n", "f", "l", "i", "c", "t" >>,
   deadline |-> << "d", "e", "a", "d", "l", "i", "n", "e" >>,
   anxiety |-> << "a", "n", "x", "i", "e", "t", "y" >>,
   worry |-> << "w", "o", "r", "r", "y" >>]

\* A variant that leaves the case of the note as it is.
ToLowerCase_AsWritten(text) == text

\* String.prototype.toLowerCase on the letters A to Z; other characters stay.
UpperCase ==
  << "A", "B", "C", "D", "E", "F", "G", "H", "I", "J", "K", "L", "M",
     "N", "O", "P", "Q", "R", "S", "T", "U", "V", "W", "X", "Y", "Z" >>
LowerCase ==
  << "a", "b", "c", "d", "e", "f", "g", "h", "i", "j", "k", "l", "m",
     "n", "o", "p", "q", "r", "s", "t", "u", "v", "w", "x", "y", "z" >>
LowerChar(c) ==
  IF \E k \in 1..Len(UpperCase) : UpperCase[k] = c
  THEN LowerCase[CHOOSE k \in 1..Len(UpperCase) : UpperCase[k] = c]
  ELSE c

RECURSIVE ToLowerCase(_)
ToLowerCase(text) ==
  IF text = << >> THEN << >>
  ELSE << LowerChar(Head(text)) >> \o ToLowerCase(Tail(text))

\* A variant that matches whole words only: the occurrence may not touch a
\* letter on either side.
Includes_WholeWord(text, word) ==
  LET Letter(c) == \E k \in 1..Len(LowerCase) : LowerCase[k] = c \/ UpperCase[k] = c
  IN  \E i \in 1..(Len(text) - Len(word) + 1) :
        /\ SubSeq(text, i, i + Len(word) - 1) = word
        /\ i > 1 => ~Letter(text[i - 1])
        /\ i + Len(word) <= Len(text) => ~Letter(text[i + Len(word)])

\* String.prototype.includes: word occurs in text at some position.
Includes(text, word) ==
  \E i \in 1..(Len(text) - Len(word) + 1) : SubSeq(text, i, i + Len(word) - 1) = word

\* if (!entry.details) return; entry.details.toLowerCase().includes(word)
EntryMentions(entry, word) ==
  /\ entry.details # << >>
  /\ Includes(ToLowerCase(entry.details), Spelling[word])

\* The entries whose details include word number w of the scan order.
Mentions(entries, w) == { i \in 1..Len(entries) : EntryMentions(entries[i], ScanOrder[w]) }
FirstMention(entries, w) ==
  CHOOSE i \in Mentions(entries, w) : \A j \in Mentions(entries, w) : i <= j

\* triggers after entries.forEach: one key per word found, in the order the
\* keys were created (entry by entry, within an entry in scan order), each with
\* count and totalImpact over the entries that include the word.
CountTriggers(entries) ==
  LET scanned ==
        { [scan |-> w,
           first |-> FirstMention(entries, w),
           count |-> Cardinality(Mentions(entries, w)),
           totalImpact |-> SumRatings(SelectSeq(entries,
                             LAMBDA entry : EntryMentions(entry, ScanOrder[w])))] :
          w \in { v \in 1..Len(ScanOrder) : Mentions(entries, v) # {} } }
      Earlier(c, d) ==
        \/ c.first < d.first
        \/ c.first = d.first /\ c.scan < d.scan
      at(k) == CHOOSE d \in scanned : Cardinality({ c \in scanned : Earlier(c, d) }) = k - 1
  IN  [k \in 1..Cardinality(scanned) |->
         [word |-> ScanOrder[at(k).scan],
          count |-> at(k).count,
          totalImpact |-> at(k).totalImpact,
          type |-> WordType(at(k).scan)]]

\* A variant without the filter on the count.
TriggersArray_Unfiltered(entries) ==
  LET counted == CountTriggers(entries)
      mapped == [i \in 1..Len(counted) |->
                   [trigger |-> Capitalized[counted[i].word],
                    impact |-> counted[i].type,
                    frequency |-> counted[i].count]]
      sorted == ArraySort(mapped, [i \in 1..Len(mapped) |-> << 0 - mapped[i].frequency, 1 >>])
  IN  SubSeq(sorted, 1, IF Len(sorted) < 5 THEN Len(sorted) ELSE 5)

\* A variant without the slice.
TriggersArray_All(entries) ==
  LET counted == SelectSeq(CountTriggers(entries), LAMBDA data : data.count >= 2)
      mapped == [i \in 1..Len(counted) |->
                   [trigger |-> Capitalized[counted[i].word],
                    impact |-> counted[i].type,
                    frequency |-> counted[i].count]]
  IN  ArraySort(mapped, [i \in 1..Len(mapped) |-> << 0 - mapped[i].frequency, 1 >>])

\* A variant that sorts by the rating total.
TriggersArray_ByImpact(entries) ==
  LET counted == SelectSeq(CountTriggers(entries), LAMBDA data : data.count >= 2)
      mapped == [i \in 1..Len(counted) |->
                   [trigger |-> Capitalized[counted[i].word],
                    impact |-> counted[i].type,
                    frequency |-> counted[i].count]]
      sorted == ArraySort(mapped, [i \in 1..Len(mapped) |-> << 0 - counted[i].totalImpact, 1 >>])
  IN  SubSeq(sorted, 1, IF Len(sorted) < 5 THEN Len(sorted) ELSE 5)

\* the triggers counted at least twice, most frequent first, five at most
MinCount == 2
TopTriggers == 5
TriggersArray(entries) ==
  LET counted == SelectSeq(CountTriggers(entries), LAMBDA data : data.count >= MinCount)
      mapped == [i \in 1..Len(counted) |->
                   [trigger |-> Capitalized[counted[i].word],
                    impact |-> counted[i].type,
                    frequency |-> counted[i].count]]
      sorted == ArraySort(mapped, [i \in 1..Len(mapped) |-> << 0 - mapped[i].frequency, 1 >>])
  IN  SubSeq(sorted, 1, IF Len(sorted) < TopTriggers THEN Len(sorted) ELSE TopTriggers)

\* A variant that pushes the weekend pattern before the day patterns.
AnalyzeMoodPatterns_WeekendFirst(z, entries) ==
  LET entriesByDay == EntriesByDay(z, entries)
  IN  { [patterns |-> weekend
                      \o DayPattern(HighestMoodDay(entriesByDay), "Peak Day")
                      \o DayPattern(LowestMoodDay(entriesByDay), "Dip Day"),
         triggers |-> TriggersArray(entries)] : weekend \in WeekendPatterns(z, entries) }

\* analyzeMoodPatterns(entries): what it hands to setMoodPatterns and
\* setMoodTriggers, one result per outcome of the weekend test.
AnalyzeMoodPatterns(z, entries) ==
  LET entriesByDay == EntriesByDay(z, entries)
  IN  { [patterns |-> DayPattern(HighestMoodDay(entriesByDay), "Peak Day")
                      \o DayPattern(LowestMoodDay(entriesByDay), "Dip Day")
                      \o weekend,
         triggers |-> TriggersArray(entries)] : weekend \in WeekendPatterns(z, entries) }

\* loadMoodData, by await. AsyncStorage.getItem answers (the display name is
\* not part of this model).
GetItemOk ==
  /\ loadMoodData = "getItem"
  /\ loadMoodData' = "getRecent"
  /\ UNCHANGED << envVars, homeVars, isLoading, moodEntries, hasEnoughData, moodPatterns,
                  moodTriggers >>

\* getRecentMoodEntries(30) answers with the rows of the table.
GetRecentOk ==
  /\ loadMoodData = "getRecent"
  /\ moodEntries' = db
  /\ hasEnoughData' = (Len(db) >= MinEntries)
  /\ IF Len(db) >= MinEntries
     THEN \E result \in AnalyzeMoodPatterns(tz, db) :
            /\ moodPatterns' = result.patterns
            /\ moodTriggers' = result.triggers
     ELSE UNCHANGED << moodPatterns, moodTriggers >>
  /\ isLoading' = FALSE
  /\ loadMoodData' = "done"
  /\ UNCHANGED << envVars, homeVars >>

\* Either await rejects: catch logs, finally clears the flag.
LoadMoodDataFails ==
  /\ loadMoodData \in {"getItem", "getRecent"}
  /\ isLoading' = FALSE
  /\ loadMoodData' = "done"
  /\ UNCHANGED << envVars, homeVars, moodEntries, hasEnoughData, moodPatterns, moodTriggers >>

\* The analytics screen has mounted and its effect has called loadMoodData.
\* The table holds, for each of seven consecutive dates, one of these days.
DayLoads == { << >>, << 2 >>, << 4 >>, << 2, 4 >>, << 3, 4 >> }
AnalyticsDates == 0..(Len(DaysOfWeek) - 1)

RECURSIVE RowsFrom(_, _)
RowsFrom(days, date) ==
  IF date \notin AnalyticsDates THEN << >>
  ELSE [i \in 1..Len(days[date]) |->
          [date |-> date, rating |-> days[date][i], details |-> << >>]]
       \o RowsFrom(days, date - 1)

AnalyticsTables ==
  { RowsFrom(days, Len(DaysOfWeek) - 1) : days \in [AnalyticsDates -> DayLoads] }

InitAnalytics ==
  /\ tz \in { z \in Zones : z.kind = "none" }
  /\ now = 24 * MaxDay
  /\ db \in AnalyticsTables
  /\ subscription = "free"
  /\ refresh = [r \in Runs |-> IdleRun]
  /\ MountedState
  /\ AnalyticsMounted
  /\ loadMoodData = "getItem"

NextAnalytics ==
  \/ GetItemOk
  \/ GetRecentOk
  \/ LoadMoodDataFails

SpecAnalytics == InitAnalytics /\ [][NextAnalytics]_vars

\* The same tables and one more, whose entries all fall on one date: the
\* fewest entries the analysis runs on, rated 2 and 4 in turn.
OneDateDays ==
  [date \in AnalyticsDates |->
     IF date = 3 THEN [i \in 1..MinEntries |-> IF i % 2 = 0 THEN 4 ELSE 2] ELSE << >>]

BucketTables == AnalyticsTables \cup { RowsFrom(OneDateDays, Len(DaysOfWeek) - 1) }

InitBuckets ==
  /\ tz \in { z \in Zones : z.kind = "none" }
  /\ now = 24 * MaxDay
  /\ db \in BucketTables
  /\ subscription = "free"
  /\ refresh = [r \in Runs |-> IdleRun]
  /\ MountedState
  /\ AnalyticsMounted
  /\ loadMoodData = "getItem"

SpecBuckets == InitBuckets /\ [][NextAnalytics]_vars

\* The same screen over tables that set the weekend against the weekdays: a
\* Sunday, a Monday, a Tuesday, a Friday and a Saturday, each with no entry or
\* with three entries of one of these loads.
WeekendLoads ==
  { << >>, << 1, 1, 1 >>, << 5, 5, 5 >>, << 2, 2, 3 >>, << 1, 2, 2 >>, << 2, 2, 2 >> }
WeekendDates == {0, 1, 2, 5, 6}

RECURSIVE WeekendRows(_, _)
WeekendRows(days, date) ==
  IF date < 0 THEN << >>
  ELSE (IF date \in WeekendDates
        THEN [i \in 1..Len(days[date]) |->
                [date |-> date, rating |-> days[date][i], details |-> << >>]]
        ELSE << >>)
       \o WeekendRows(days, date - 1)

WeekendTables ==
  { WeekendRows(days, Len(DaysOfWeek) - 1) : days \in [WeekendDates -> WeekendLoads] }

InitWeekend ==
  /\ tz \in { z \in Zones : z.kind = "none" }
  /\ now = 24 * MaxDay
  /\ db \in WeekendTables
  /\ subscription = "free"
  /\ refresh = [r \in Runs |-> IdleRun]
  /\ MountedState
  /\ AnalyticsMounted
  /\ loadMoodData = "getItem"

SpecWeekend == InitWeekend /\ [][NextAnalytics]_vars

\* The same screen over tables whose entries carry notes: ten entries, the
\* first three (the most recent) each without a note or with one of these.
\* 'had exercise today'
NoteExerciseToday ==
  << "h", "a", "d", " ", "e", "x", "e", "r", "c", "i", "s", "e", " ", "t", "o", "d", "a",
     "y" >>
\* 'exercise and stress'
NoteExerciseAndStress ==
  << "e", "x", "e", "r", "c", "i", "s", "e", " ", "a", "n", "d", " ", "s", "t", "r", "e",
     "s", "s" >>
\* 'stress again'
NoteStressAgain ==
  << "s", "t", "r", "e", "s", "s", " ", "a", "g", "a", "i", "n" >>
\* 'Great Workout'
NoteWorkout ==
  << "G", "r", "e", "a", "t", " ", "W", "o", "r", "k", "o", "u", "t" >>
\* 'STRESS, more stress'
NoteStressTwice ==
  << "S", "T", "R", "E", "S", "S", ",", " ", "m", "o", "r", "e", " ", "s", "t", "r", "e",
     "s", "s" >>
\* 'an interesting day'
NoteInteresting ==
  << "a", "n", " ", "i", "n", "t", "e", "r", "e", "s", "t", "i", "n", "g", " ", "d", "a",
     "y" >>
\* 'worry, deadline, tired and sick! then friend, family, nature, sleep, rest, hobby'
NoteManyWords ==
  << "w", "o", "r", "r", "y", ",", " ", "d", "e", "a", "d", "l", "i", "n", "e", ",", " ",
     "t", "i", "r", "e", "d", " ", "a", "n", "d", " ", "s", "i", "c", "k", "!", " ", "t",
     "h", "e", "n", " ", "f", "r", "i", "e", "n", "d", ",", " ", "f", "a", "m", "i", "l",
     "y", ",", " ", "n", "a", "t", "u", "r", "e", ",", " ", "s", "l", "e", "e", "p", ",",
     " ", "r", "e", "s", "t", ",", " ", "h", "o", "b", "b", "y" >>
TriggerNotes ==
  { << >>, NoteExerciseToday, NoteExerciseAndStress, NoteStressAgain, NoteWorkout,
    NoteStressTwice, NoteInteresting, NoteManyWords }
NotedEntries == 3
TriggerDates == << 6, 6, 5, 4, 3, 3, 2, 1, 0, 0 >>
TriggerRatings == << 5, 1, 4, 2, 3, 3, 2, 4, 1, 5 >>

TriggerTables ==
  { [i \in 1..Len(TriggerDates) |->
       [date |-> TriggerDates[i], rating |-> TriggerRatings[i],
        details |-> IF i <= NotedEntries THEN notes[i] ELSE << >>]] :
    notes \in [1..NotedEntries -> TriggerNotes] }

InitTriggers ==
  /\ tz \in { z \in Zones : z.kind = "none" /\ z.std = 0 }
  /\ now = 24 * MaxDay
  /\ db \in TriggerTables
  /\ subscription = "free"
  /\ refresh = [r \in Runs |-> IdleRun]
  /\ MountedState
  /\ AnalyticsMounted
  /\ loadMoodData = "getItem"

SpecTriggers == InitTriggers /\ [][NextAnalytics]_vars

\* ================================================================ claims
\* Two averages are the same: both no data, or the same number.
SameAverage(a, b) ==
  IF a = NoData \/ b = NoData THEN a = b ELSE FracEq(a, b)

\* The run of consecutive calendar days that have an entry, counted back from
\* day d.
RECURSIVE RunLength(_, _)
RunLength(dates, d) ==
  IF d \in dates THEN 1 + RunLength(dates, d - 1) ELSE 0

MostRecent(es) == CHOOSE d \in DateSet(es) : \A x \in DateSet(es) : x <= d

ExpectedStreak(es) ==
  IF es = << >> THEN 0 ELSE RunLength(DateSet(es), MostRecent(es))

\* C1: after the streak is computed it equals the number of consecutive
\* calendar days with an entry, counted back from the most recent entry date.
C1_StreakIsRunLength ==
  refresh[1].outcome = "entries" => streak = ExpectedStreak(db)

\* C2: the week average is the mean of exactly the entries dated in the 7-day
\* window [endDate-6, endDate], for the current week (endDate = today) and for
\* a historical day (endDate = the target date).
C2_WeekWindow ==
  [][ /\ AllEntriesOk(1) =>
          SameAverage(weeklyAverage',
                      AverageOrNull(RangeQuery(db, ToISODate(now) - 6, ToISODate(now))))
      /\ \A l \in Loads :
          (LoadWeekOk(l) /\ historicalMoodData'.weekAverage # NoData) =>
          SameAverage(historicalMoodData'.weekAverage,
                      AverageOrNull(RangeQuery(db, ToISODate(loads[l].targetDate) - 6,
                                               ToISODate(loads[l].targetDate)))) ]_vars

\* A refreshMoodData run returns in this step.
RunCompletes(r) == refresh[r].pc # "idle" /\ refresh'[r].pc = "idle"

\* C3: whenever a refreshMoodData run that found no entry for today completes,
\* todayMood and selectedMood are null.
C3_NullAtCompletion ==
  [][ \A r \in Runs :
        (RunCompletes(r) /\ refresh[r].today = "none") =>
        (todayMood' = NoData /\ selectedMood' = NoData) ]_vars

\* C3 as amended: the step in which a run learns that today has no entry sets
\* todayMood and selectedMood to null, and todayMood becomes a rating only by
\* a run that found an entry or by handleMoodChange with a rendered mood.
C3_NoEntrySetsNull ==
  [][ /\ \A r \in Runs :
          (refresh[r].pc = "today" /\ refresh'[r].today = "none") =>
          (todayMood' = NoData /\ selectedMood' = NoData)
      /\ (todayMood' # NoData /\ todayMood' # todayMood) =>
          \/ \E r \in Runs : refresh[r].pc = "today" /\ refresh'[r].today = "found"
          \/ view.todayMood # NoData /\ selectedMood' = todayMood' ]_vars

\* A run has just found no entry for the new day while the last render still
\* shows yesterday's mood.
C3_Witness ==
  \E r \in Runs :
    /\ refresh[r].pc = "removeItem" /\ refresh[r].today = "none"
    /\ todayMood = NoData /\ selectedMood = NoData
    /\ view.todayMood # NoData
    /\ DayQuery(db, ToISODate(now) - 1) # << >>

C5_EmptyWeekIsNull ==
  [][ /\ (AllEntriesOk(1) /\ CurrentWeekEntries(tz, now, db) = << >>) =>
          weeklyAverage' = NoData
      /\ \A l \in Loads :
          (LoadWeekOk(l) /\ HistoricalWeekEntries(tz, db, loads[l].targetDate) = << >>) =>
          historicalMoodData'.weekAverage = NoData ]_vars

Classification(f) == (2 * f[1] + f[2]) \div (2 * f[2])

\* C7: every mood classification shown for an average s/n is
\* floor((2s + n) / (2n)): .5 goes up, and the thresholds 1.5, 2.5, 3.5, 4.5
\* of the analytics colours are the same breakpoints.
C7_RoundHalfUp ==
  /\ historicalMoodData.dayMood # NoData =>
        historicalMoodData.dayMood =
          Just(Classification(Mean(historicalMoodData.entries)))
  /\ \A a \in {weeklyAverage, historicalMoodData.weekAverage} :
        a # NoData =>
          /\ WeeklyMoodDisplay(a) = Just(Classification(a))
          /\ AnalyticsMoodColor(a) = Classification(a)
  /\ historicalMoodData.entries # << >> =>
        AnalyticsMoodColor(Mean(historicalMoodData.entries)) =
          Classification(Mean(historicalMoodData.entries))

\* A day rated 4 and 5 (mean 4.5) is classified 5.
C7_Witness ==
  /\ historicalMoodData.dayMood = Just(5)
  /\ Mean(historicalMoodData.entries) = << 9, 2 >>
  /\ AnalyticsMoodColor(Mean(historicalMoodData.entries)) = 5

\* The analysis has run on the entries the screen holds.
Analyzed == loadMoodData = "done" /\ hasEnoughData

\* The patterns of one kind among those the screen holds.
PatternsOf(kind) == SelectSeq(moodPatterns, LAMBDA p : p.pattern = kind)

\* The weekday, 0 = Sunday, of a date of the calendar.
Weekday(date) == date % 7

\* C8: the entries are partitioned into the seven weekday buckets Sunday to
\* Saturday: every entry is in the bucket of the weekday of its date and in no
\* other, a bucket's mean is the sum of its ratings over their number, and an
\* empty bucket has no mean (null, not 0).
C8_WeekdayBuckets ==
  Analyzed =>
    LET byDay == EntriesByDay(tz, moodEntries)
        In(d, e) == \E i \in 1..Len(byDay[d].entries) : byDay[d].entries[i] = e
    IN  /\ Len(byDay) = 7
        /\ \A i \in 1..Len(moodEntries) : \A d \in 1..7 :
             In(d, moodEntries[i]) <=> (d - 1 = Weekday(moodEntries[i].date))
        /\ \A d \in 1..7 :
             /\ Cardinality({ i \in 1..Len(moodEntries) :
                               Weekday(moodEntries[i].date) = d - 1 })
                  = Len(byDay[d].entries)
             /\ IF byDay[d].entries = << >>
                THEN byDay[d].averageMood = NoData
                ELSE /\ byDay[d].averageMood # NoData
                     /\ byDay[d].averageMood[1] * Len(byDay[d].entries)
                          = SumRatings(byDay[d].entries) * byDay[d].averageMood[2]

\* The first bucket, Sunday first, among those with data whose mean no bucket
\* with data beats; better(a, b) says that mean a beats mean b.
FirstBest(byDay, better(_, _)) ==
  LET withData == { d \in 1..7 : byDay[d].entries # << >> }
      best == { d \in withData :
                  \A o \in withData : ~better(Mean(byDay[o].entries), Mean(byDay[d].entries)) }
  IN  CHOOSE d \in best : \A o \in best : d <= o

\* C9: when the analysis has run, the Peak Day pattern names the bucket with
\* the largest mean among the buckets with data, the first of them from Sunday
\* on when several tie; it never names an empty bucket, and without any data
\* there is no Peak Day pattern.
C9_PeakDay ==
  LET byDay == EntriesByDay(tz, moodEntries)
      peaks == PatternsOf("Peak Day")
  IN  /\ Analyzed =>
           /\ Len(peaks) = 1
           /\ peaks[1].day = DaysOfWeek[FirstBest(byDay, LAMBDA a, b : FracLess(b, a))]
           /\ \A d \in 1..7 : byDay[d].entries = << >> => peaks[1].day # DaysOfWeek[d]
      /\ moodEntries = << >> => peaks = << >>

\* Monday and Wednesday tie for the largest mean, Sunday has less: Monday.
C9_Witness ==
  LET byDay == EntriesByDay(tz, moodEntries)
  IN  /\ Analyzed
      /\ PatternsOf("Peak Day") = << [day |-> "Monday", pattern |-> "Peak Day"] >>
      /\ byDay[1].entries # << >>
      /\ byDay[4].entries # << >>
      /\ FracLess(byDay[1].averageMood, byDay[2].averageMood)
      /\ FracEq(byDay[2].averageMood, byDay[4].averageMood)
      /\ \E d \in 1..7 : byDay[d].entries = << >>

\* C10: when the analysis has run, the Dip Day pattern names the bucket with
\* the smallest mean among the buckets with data, the first of them from
\* Sunday on when several tie; it never names an empty bucket, and without any
\* data there is no Dip Day pattern.
C10_DipDay ==
  LET byDay == EntriesByDay(tz, moodEntries)
      dips == PatternsOf("Dip Day")
  IN  /\ Analyzed =>
           /\ Len(dips) = 1
           /\ dips[1].day = DaysOfWeek[FirstBest(byDay, LAMBDA a, b : FracLess(a, b))]
           /\ \A d \in 1..7 : byDay[d].entries = << >> => dips[1].day # DaysOfWeek[d]
      /\ moodEntries = << >> => dips = << >>

\* Tuesday and Friday tie for the smallest mean, Sunday is empty: Tuesday.
C10_Witness ==
  LET byDay == EntriesByDay(tz, moodEntries)
  IN  /\ Analyzed
      /\ PatternsOf("Dip Day") = << [day |-> "Tuesday", pattern |-> "Dip Day"] >>
      /\ byDay[1].entries = << >>
      /\ byDay[6].entries # << >>
      /\ FracEq(byDay[3].averageMood, byDay[6].averageMood)
      /\ \E d \in 1..7 : byDay[d].entries # << >> /\
                         FracLess(byDay[3].averageMood, byDay[d].averageMood)

\* The weekend patterns among the patterns shown.
WeekendShown ==
  SelectSeq(moodPatterns, LAMBDA p : p.pattern \in {"Weekend Boost", "Weekday Preference"})

\* The tenths a non-negative fraction may be written with to one decimal: the
\* nearest one, either neighbour when it lies exactly between two.
ToOneDecimal(num, den) ==
  LET q == (10 * num) \div den
      rem == (10 * num) % den
  IN  { << n \div 10, n % 10 >> : n \in { m \in {q, q + 1} :
          \/ m = q /\ 2 * rem <= den
          \/ m = q + 1 /\ 2 * rem >= den } }

\* C11: with the entries split into the Saturday/Sunday group and the
\* Monday-to-Friday group, a weekend pattern is shown exactly when both groups
\* are non-empty and their means differ by more than one half: then exactly
\* one, Weekend Boost when the weekend mean is the higher one and Weekday
\* Preference otherwise, quoting the difference to one decimal; when a group is
\* empty or the means differ by at most one half, none is shown.
C11_WeekendPattern ==
  Analyzed =>
    LET weekend == WeekendEntries(tz, moodEntries)
        weekday == WeekdayEntries(tz, moodEntries)
        d == SumRatings(weekend) * Len(weekday) - SumRatings(weekday) * Len(weekend)
        diff == IF d < 0 THEN 0 - d ELSE d
        den == Len(weekend) * Len(weekday)
    IN  IF Len(weekend) > 0 /\ Len(weekday) > 0 /\ 2 * diff > den
        THEN /\ Len(WeekendShown) = 1
             /\ WeekendShown[1].pattern =
                  (IF d > 0 THEN "Weekend Boost" ELSE "Weekday Preference")
             /\ WeekendShown[1].points \in ToOneDecimal(diff, den)
        ELSE WeekendShown = << >>

\* A character of a note matches a letter of a word whatever its case.
SameLetter(c, letter) ==
  \/ c = letter
  \/ \E k \in 1..Len(LowerCase) : LowerCase[k] = letter /\ UpperCase[k] = c

\* The note reads before \o word \o after, letter case aside.
Contains(note, word) ==
  \E before \in 0..Len(note) :
    /\ before + Len(word) <= Len(note)
    /\ \A k \in 1..Len(word) : SameLetter(note[before + k], word[k])

\* The number of entries whose note contains the word.
EntriesContaining(entries, word) ==
  Cardinality({ i \in 1..Len(entries) : Contains(entries[i].details, Spelling[word]) })

\* The count the scan leaves for a word, 0 when it created no key for it.
CountOf(triggers, word) ==
  IF \E k \in 1..Len(triggers) : triggers[k].word = word
  THEN triggers[CHOOSE k \in 1..Len(triggers) : triggers[k].word = word].count
  ELSE 0

\* The vocabulary word a shown trigger stands for.
WordOf(shown) ==
  CHOOSE w \in 1..Len(ScanOrder) : Capitalized[ScanOrder[w]] = shown.trigger

\* C12: for every vocabulary word, the count after the scan is the number of
\* entries with a note that contains the word, letter case aside: once per
\* entry however often the note repeats it, one note counting for each word it
\* contains, nothing for an entry without a note. The frequency of each
\* trigger shown is that number.
C12_CountIsEntriesContaining ==
  Analyzed =>
    /\ LET triggers == CountTriggers(moodEntries)
       IN  \A w \in 1..Len(ScanOrder) :
             CountOf(triggers, ScanOrder[w]) = EntriesContaining(moodEntries, ScanOrder[w])
    /\ \A k \in 1..Len(moodTriggers) :
         moodTriggers[k].frequency
           = EntriesContaining(moodEntries, ScanOrder[WordOf(moodTriggers[k])])

\* A note that repeats a word in both cases, a note with two words of which
\* one is inside the other, and entries without a note have been scanned.
C12_Witness ==
  /\ Analyzed
  /\ moodEntries[1].details = NoteStressTwice
  /\ moodEntries[2].details = NoteWorkout
  /\ moodEntries[3].details = NoteStressAgain
  /\ CountOf(CountTriggers(moodEntries), "stress") = 2
  /\ CountOf(CountTriggers(moodEntries), "work") = 1
  /\ CountOf(CountTriggers(moodEntries), "workout") = 1
  /\ moodTriggers = << [trigger |-> "Stress", impact |-> "negative", frequency |-> 2] >>

\* C13: the triggers shown are in descending order of their count, and two
\* with equal counts are in the order of the vocabulary (the positive list,
\* then the negative list), whatever entry mentioned which word first.
C13_TiesInVocabularyOrder ==
  Analyzed =>
    \A i, j \in 1..Len(moodTriggers) :
      i < j =>
        \/ moodTriggers[i].frequency > moodTriggers[j].frequency
        \/ /\ moodTriggers[i].frequency = moodTriggers[j].frequency
           /\ WordOf(moodTriggers[i]) < WordOf(moodTriggers[j])

\* The vocabulary words whose note count reaches the floor of two.
Qualifying(entries) ==
  { w \in 1..Len(ScanOrder) : EntriesContaining(entries, ScanOrder[w]) >= 2 }

\* C14: every trigger shown has a count of at least 2, and no vocabulary word
\* with count 0 or 1 is shown.
C14_NoiseFloor ==
  Analyzed =>
    /\ \A k \in 1..Len(moodTriggers) : moodTriggers[k].frequency >= 2
    /\ \A k \in 1..Len(moodTriggers) : WordOf(moodTriggers[k]) \in Qualifying(moodEntries)

\* The notes 'had exercise today', 'exercise and stress', 'stress again' show
\* Exercise with count 2 and Stress with count 2.
C14_Witness ==
  /\ Analyzed
  /\ moodEntries[1].details = NoteExerciseToday
  /\ moodEntries[2].details = NoteExerciseAndStress
  /\ moodEntries[3].details = NoteStressAgain
  /\ moodTriggers = << [trigger |-> "Exercise", impact |-> "positive", frequency |-> 2],
                       [trigger |-> "Stress", impact |-> "negative", frequency |-> 2] >>

\* The first entry whose note contains the word.
FirstContaining(entries, word) ==
  CHOOSE i \in 1..Len(entries) :
    /\ Contains(entries[i].details, Spelling[word])
    /\ \A j \in 1..(i - 1) : ~Contains(entries[j].details, Spelling[word])

\* The place of a qualifying word in the sorted order: the number of
\* qualifying words with a higher count, or with the same count and met
\* earlier in the scan.
Place(entries, w) ==
  Cardinality({ v \in Qualifying(entries) :
    LET cv == EntriesContaining(entries, ScanOrder[v])
        cw == EntriesContaining(entries, ScanOrder[w])
        fv == FirstContaining(entries, ScanOrder[v])
        fw == FirstContaining(entries, ScanOrder[w])
    IN  \/ cv > cw
        \/ cv = cw /\ fv < fw
        \/ cv = cw /\ fv = fw /\ v < w })

\* C15: the list of triggers never has more than 5 elements, and it is the
\* beginning of the sorted order: the trigger at position k is the qualifying
\* word at place k of that order, so that with more than 5 qualifying words
\* the first 5 are kept.
C15_FirstFive ==
  Analyzed =>
    /\ Len(moodTriggers) <= 5
    /\ Len(moodTriggers) <= Cardinality(Qualifying(moodEntries))
    /\ Cardinality(Qualifying(moodEntries)) >= 5 => Len(moodTriggers) = 5
    /\ \A k \in 1..Len(moodTriggers) :
         Place(moodEntries, WordOf(moodTriggers[k])) = k - 1

\* Ten words reach the floor and the first five of the sorted order are shown.
C15_Witness ==
  /\ Analyzed
  /\ Cardinality(Qualifying(moodEntries)) >= 10
  /\ Len(moodTriggers) = 5
  /\ moodTriggers[1].trigger = "Friend"
  /\ moodTriggers[5].trigger = "Rest"

\* C16: each trigger shown carries, besides its display form, its polarity and
\* its count, the total of the ratings of the entries that mentioned it.
C16_ExposesRatingTotal ==
  Analyzed =>
    \A k \in 1..Len(moodTriggers) :
      /\ "totalImpact" \in DOMAIN moodTriggers[k]
      /\ moodTriggers[k].totalImpact
           = SumRatings(SelectSeq(moodEntries, LAMBDA entry :
               Contains(entry.details, Spelling[ScanOrder[WordOf(moodTriggers[k])]])))

\* The same entries with other ratings, position by position.
WithRatings(entries, ratings) ==
  [i \in 1..Len(entries) |-> [entries[i] EXCEPT !.rating = ratings[i]]]
OtherRatings ==
  { [i \in 1..Len(TriggerRatings) |-> 1],
    [i \in 1..Len(TriggerRatings) |-> TriggerRatings[Len(TriggerRatings) + 1 - i]],
    [i \in 1..Len(TriggerRatings) |-> IF i % 2 = 0 THEN 5 ELSE 2] }

\* C17: the list of triggers does not depend on the ratings: the same notes in
\* the same order under other ratings give the same words, polarities and
\* counts in the same order.
C17_RatingsDoNotMatter ==
  Analyzed =>
    \A ratings \in OtherRatings :
      TriggersArray(WithRatings(moodEntries, ratings)) = moodTriggers

\* Two triggers are shown and the one shown second has the larger rating total.
C17_Witness ==
  /\ Analyzed
  /\ Len(moodTriggers) >= 2
  /\ LET triggers == CountTriggers(moodEntries)
     IN  \E a, b \in 1..Len(triggers) :
           /\ Capitalized[triggers[a].word] = moodTriggers[1].trigger
           /\ Capitalized[triggers[b].word] = moodTriggers[2].trigger
           /\ triggers[a].totalImpact < triggers[b].totalImpact

\* A request for recommendations fails: in generateRecommendationsBasedOnMood
\* or generateRecommendationsWithDetails (called by refreshMoodData), or in
\* handleMoodDetailsSubmitted.
RecommendationFails ==
  \/ \E r \in Runs : RefreshRecsFail(r)
  \/ \E s \in Submissions : SubmittedRecsFail(s)

\* C18: whenever a request for recommendations fails, activities is null after
\* the failure has been handled: neither an empty list nor the list of an
\* earlier successful request remains.
C18_NullAfterFailure == [][RecommendationFails => activities' = NoData]_vars

\* One submission was answered with a list, the other one failed, and no list
\* is left.
C18_Witness ==
  /\ submissions[1].outcome = "ok"
  /\ submissions[2].outcome = "failed"
  /\ hasMoodInput
  /\ activities = NoData
  /\ ~isLoadingActivities

\* The entries whose rating is one of 1..5.
InRangeEntries(es) == SelectSeq(es, LAMBDA entry : entry.rating \in Ratings)

\* C19: an entry whose rating is outside 1..5 is rejected: it does not
\* contribute to the day average of its date nor to the week average of a
\* window that holds it; these are computed from the entries rated 1..5 alone.
C19_OutOfRangeRejected ==
  [][ /\ AllEntriesOk(1) =>
          SameAverage(weeklyAverage',
                      AverageOrNull(InRangeEntries(CurrentWeekEntries(tz, now, db))))
      /\ \A l \in Loads :
          LoadDayOk(l) =>
          LET es == InRangeEntries(DayQuery(db, ToISODate(loads[l].targetDate)))
          IN  historicalMoodData'.dayMood
                = (IF es = << >> THEN NoData ELSE Just(MathRound(Mean(es)))) ]_vars

\* The aggregates of the two screens that are null over an empty set: the day
\* average and the week average of the summary, the cells of the week view,
\* and the bucket means of the analytics screen.
NullOverEmpty ==
  /\ DayAverage(<< >>) = NoData
  /\ AverageOrNull(<< >>) = NoData
  /\ \A index \in 0..(Len(DaysOfWeek) - 1) :
       LET cell == SelectSeq(moodEntries, LAMBDA entry : EntryDay(tz, entry) = index)
       IN  cell = << >> => WeekViewDayAverage(tz, moodEntries, index) = NoData
  /\ \A d \in 1..Len(DaysOfWeek) :
       EntriesByDay(tz, moodEntries)[d].entries = << >> =>
         EntriesByDay(tz, moodEntries)[d].averageMood = NoData

C21_OnePerRuleInOrder ==
  /\ Analyzed =>
       /\ Len(PatternsOf("Peak Day")) <= 1
       /\ Len(PatternsOf("Dip Day")) <= 1
       /\ Len(WeekendShown) <= 1
       /\ Len(moodPatterns) <= 3
       /\ moodPatterns = PatternsOf("Peak Day") \o PatternsOf("Dip Day") \o WeekendShown
       /\ \/ WeekendEntries(tz, moodEntries) = << >>
          \/ WeekdayEntries(tz, moodEntries) = << >>
          => WeekendShown = << >>
  /\ (loadMoodData = "done" /\ ~hasEnoughData) => moodPatterns = << >>

\* All three rules have a result, shown in their order.
C21_Witness ==
  /\ Analyzed
  /\ Len(moodPatterns) = 3
  /\ moodPatterns[1].pattern = "Peak Day"
  /\ moodPatterns[2].pattern = "Dip Day"
  /\ moodPatterns[3].pattern = "Weekday Preference"

\* C22: whatever the order of navigateToPrevious, navigateToNext,
\* resetToToday, toggleTimePeriod and handleMoodSaved, and whenever the
\* component re-renders between them, dateOffset is never negative.
C22_OffsetNeverNegative == dateOffset >= 0

\* What the queries of a load for the given selection return, as
\* historicalMoodData holds it after that load alone.
Fetched(period, offset) ==
  LET targetDate == GetCurrentDate(tz, now, period, offset)
  IN  IF period = "day"
      THEN [dayMood |-> DayAverage(DayQuery(db, ToISODate(targetDate))),
            entries |-> DayQuery(db, ToISODate(targetDate)),
            weekAverage |-> AverageOrNull(HistoricalWeekEntries(tz, db, targetDate))]
      ELSE [dayMood |-> NoData,
            entries |-> Reverse(RangeQuery(db, ToISODate(StartOfWeek(tz, targetDate)),
                                           ToISODate(EndOfWeek(tz, targetDate)))),
            weekAverage |-> NoData]

\* C23: when a past day or week is selected and rendered and no
\* loadHistoricalMoodData call is in flight, historicalMoodData holds what was
\* fetched for the selected dateOffset and summaryTimePeriod; the late answer
\* of a load started for an earlier selection does not replace it.
C23_CurrentSelectionShown ==
  (dateOffset > 0 /\ Quiet) =>
    historicalMoodData = Fetched(summaryTimePeriod, dateOffset)

\* C25: when a load of a historical day has had the answer of its day query,
\* an error included, and completes, historicalMoodData.dayMood is the
\* rounded mean of the entries of that day or null, never the dayMood of a
\* date viewed before.
C25_NoStaleDayAfterLoad ==
  [][ \A l \in Loads :
        (loads[l].pc = "week" /\ loads'[l].pc = "idle") =>
        historicalMoodData'.dayMood \in
          { NoData, DayAverage(DayQuery(db, ToISODate(loads[l].targetDate))) } ]_vars

\* C24: for a free user, however the refreshRecommendations calls overlap,
\* at most one of them sends a request to the recommendation service; and a
\* call that finds 'free_user_mood_updated' stored navigates to
\* SubscriptionComparison and leaves activities as they are.
C24_OneRefreshForFreeUsers ==
  [][ /\ subscription = "free" => serviceCalls' <= 1
      /\ \A u \in Updates :
           (RecommendationsGetItem(u) /\ freeUserMoodUpdated) =>
           /\ screen' = "SubscriptionComparison"
           /\ activities' = activities
           /\ serviceCalls' = serviceCalls ]_vars

\* A loadHistoricalMoodData call has started and not completed.
LoadInFlight == \E l \in Loads : loads[l].pc # "idle"

\* A request for recommendations has started and not completed: the one of
\* refreshMoodData, of handleMoodDetailsSubmitted or of refreshRecommendations.
RequestInFlight ==
  \/ \E r \in Runs : refresh[r].pc = "recs"
  \/ \E s \in Submissions : submissions[s].pc = "recs"
  \/ \E u \in Updates : updates[u].pc \in {"recent", "recs"}

\* C26: once every started loadHistoricalMoodData call has completed, in
\* whatever way, isLoadingHistorical is false, and once every started request
\* for recommendations has completed, isLoadingActivities is false.
C26_FlagsCleared ==
  /\ ~LoadInFlight => ~isLoadingHistorical
  /\ ~RequestInFlight => ~isLoadingActivities

\* A past day has been loaded, mood details were submitted and the
\* recommendations refreshed, the last request has failed, and nothing is in
\* flight any more.
C26_Witness ==
  /\ dateOffset > 0
  /\ Quiet
  /\ submissions[1].pc = "done"
  /\ updates[1].pc = "done"
  /\ activities = NoData
  /\ ~isLoadingHistorical
  /\ ~isLoadingActivities

\* C27: while no mood is stored for today and the last refresh has found
\* none (todayMood is null and hasMoodInput is false), handleMoodChange
\* changes selectedMood only: todayMood stays null for every slider value.
C27_UnsavedMoodNotShown ==
  [][ \A mood \in Moods :
        /\ DayQuery(db, ToISODate(now)) = << >>
        /\ todayMood = NoData
        /\ ~hasMoodInput
        /\ HandleMoodChange(mood)
        => (todayMood' = NoData /\ selectedMood' = mood) ]_vars

\* The table holds an entry for the most recent entry date and for each of
\* the n days before it.
UnbrokenFor(es, n) ==
  es # << >> /\ \A k \in 0..n : (es[1].date - k) \in DateSet(es)

\* C28: after the streak is computed it is at least 1 when the table holds an
\* entry and at most 366, and it is 366 when the unbroken run that ends at the
\* most recent entry date is longer than 366 days.
C28_StreakBetweenOneAndCap ==
  refresh[1].outcome = "entries" =>
    /\ db # << >> => streak >= 1
    /\ streak <= LookbackDays + 1
    /\ UnbrokenFor(db, LookbackDays + 1) => streak = LookbackDays + 1

\* A run of more than 366 days has been walked and is reported as 366.
C28_Witness ==
  /\ refresh[1].outcome = "entries"
  /\ Len(db) > LookbackDays + 1
  /\ streak = LookbackDays + 1

\* C29: when the analysis has run and shows patterns, there is one Peak Day
\* and one Dip Day pattern, and the two name the same weekday exactly when
\* all weekday buckets that have data have the same mean.
C29_PeakAndDipTogether ==
  LET byDay == EntriesByDay(tz, moodEntries)
      withData == { d \in 1..7 : byDay[d].entries # << >> }
      peaks == PatternsOf("Peak Day")
      dips == PatternsOf("Dip Day")
  IN  (Analyzed /\ moodPatterns # << >>) =>
        /\ Len(peaks) = 1
        /\ Len(dips) = 1
        /\ (peaks[1].day = dips[1].day) <=>
             \A d \in withData, o \in withData :
                FracEq(byDay[d].averageMood, byDay[o].averageMood)

\* Ten entries of one date, the only weekday with data: that day is both the
\* Peak Day and the Dip Day.
C29_Witness ==
  LET byDay == EntriesByDay(tz, moodEntries)
  IN  /\ Analyzed
      /\ Len(PatternsOf("Peak Day")) = 1
      /\ Len(PatternsOf("Dip Day")) = 1
      /\ PatternsOf("Peak Day")[1].day = PatternsOf("Dip Day")[1].day
      /\ Cardinality({ d \in 1..7 : byDay[d].entries # << >> }) = 1

\* The entries of the analysed rows that the scan counts toward a word.
CountedToward(word) ==
  { i \in 1..Len(moodEntries) : EntryMentions(moodEntries[i], word) }

\* C30: every entry counted toward 'workout' is counted toward 'work', so
\* before the filter the count of 'work' is at least the count of 'workout',
\* and whenever the scan has a positive 'workout' key it has a negative 'work'
\* key as well.
C30_WorkCoversWorkout ==
  LET triggers == CountTriggers(moodEntries)
  IN  Analyzed =>
        /\ CountedToward("workout") \subseteq CountedToward("work")
        /\ CountOf(triggers, "work") >= CountOf(triggers, "workout")
        /\ \A k \in 1..Len(triggers) :
             (triggers[k].word = "workout" /\ triggers[k].type = "positive") =>
               \E n \in 1..Len(triggers) :
                 triggers[n].word = "work" /\ triggers[n].type = "negative"

\* Two notes 'Great Workout' and nothing else about work: both words are
\* counted twice and both are shown, one positive and one negative.
C30_Witness ==
  /\ Analyzed
  /\ Cardinality({ i \in 1..Len(moodEntries) : moodEntries[i].details = NoteWorkout }) = 2
  /\ CountOf(CountTriggers(moodEntries), "workout") = 2
  /\ CountOf(CountTriggers(moodEntries), "work") = 2
  /\ \E k \in 1..Len(moodTriggers) :
       moodTriggers[k] = [trigger |-> "Workout", impact |-> "positive", frequency |-> 2]
  /\ \E k \in 1..Len(moodTriggers) :
       moodTriggers[k] = [trigger |-> "Work", impact |-> "negative", frequency |-> 2]

====
